---------------------------- MODULE Spec2Model ----------------------------
(***************************************************************************)
(* A model of the search core of the chessgo engine: the lock-free         *)
(* transposition table (src/src/search/tt.rs), the score primitives        *)
(* (src/src/types/score.rs), the incremental NNUE accumulator              *)
(* (src/src/eval/nnue.rs) and the Lazy SMP search driver                   *)
(* (src/src/search/mod.rs, negamax.rs, qsearch.rs, limits.rs).             *)
(*                                                                         *)
(* Each subsystem has its own specification over its own variables; the    *)
(* variables of the other subsystems are held at their idle value.         *)
(***************************************************************************)
EXTENDS Integers, Sequences, FiniteSets, TLC

VARIABLES
    \* ---- transposition table (tt.rs) ----
    entries,      \* Vec<AtomicU64>: index -> packed word (four 16-bit limbs)
    generation,   \* AtomicU8 generation counter
    nsearch,      \* history: number of new_search() calls since new()/clear()
    written,      \* history: per cell, the store call that last wrote it
    probed,       \* the last probe call and what it returned
    \* ---- concurrent stores and probes on the shared table ----
    cPending,     \* per thread: the store call between its load and its store
    cProbe,       \* the last concurrent probe call and what it returned
    \* ---- TTEntry::to_u64 / from_u64 ----
    pkEntry, pkRaw, pkOut, pkPc,
    \* ---- Score::to_tt / from_tt ----
    scIn, scP, scQ, scStored, scOut, scPc,
    \* ---- one search thread (mod.rs, negamax.rs, qsearch.rs, limits.rs) ----
    idPc,         \* position of search_internal in its iterative-deepening loop
    idDepth,      \* the loop variable depth of search_internal
    stack,        \* call stack of negamax::search / qsearch::quiescence frames
    nodes,        \* SearchStats::nodes of the thread
    since,        \* history: nodes entered since the stop flag / hard limit event
    stop,         \* SharedState::stop as this thread reads it
    hardUp,       \* TimeManager: elapsed() >= hard_limit (never for infinite)
    retAborted,   \* history: the SearchResult last handed back is, or derives
                  \* from, that of a search which should_stop() cut short
    ttStored,     \* history: the table store made by the thread's last step
    \* ---- Searcher::search with its Lazy SMP helpers (mod.rs) ----
    mPc,          \* position of the main thread in Searcher::search
    mDepth,       \* the main thread's iteration in search_internal
    hPc,          \* per helper: none, spawned, running, stopped, finished, joined
    hDepth,       \* per helper: its iteration in search_internal
    num_threads,  \* Searcher::num_threads
    sharedStop,   \* SharedState::stop
    smpSearches,  \* history: number of search() calls
    \* ---- NNUE accumulator state (nnue.rs) ----
    nnBoard,      \* the chess::Board the accumulators are meant to describe
    nnState,      \* SfHalfKpState: kings and accumulator of both perspectives
    nnPly,        \* history: number of moves made
    nnLast,       \* history: the kind of the last move made
    \* ---- Searcher::search / search_internal with values (mod.rs) ----
    thr,          \* per thread: the Searcher fields and locals of search_internal
    shared,       \* SharedState: stop flag and total_nodes
    call,         \* the search() call: position, clock, progress, result
    \* ---- UCI position / go and the repetition test (handler.rs) ----
    uci,          \* UciHandler::board and Searcher::position_history
    repOut,       \* the last repetition test of a search node and its outcome
    \* ---- TimeManager::from_limits (limits.rs) ----
    limits,       \* the SearchLimits and side handed to from_limits
    tm,           \* the TimeManager it built
    \* ---- the iteration loop of search_internal on the clock (mod.rs) ----
    iter,         \* the loop's locals, the stability counter, the elapsed time
    \* ---- functions of the search applied to given arguments ----
    fnArgs,       \* the arguments: position, move, window, depth, entry, list
    fnRet,        \* what the function returned, None before the call
    \* ---- UciHandler::run (handler.rs) ----
    io,           \* stdin, stdout, the handler's position in run, the stop flag
    \* ---- UciHandler options and its Searcher (handler.rs, mod.rs) ----
    handler       \* the option fields, the searcher's configuration, the last go

ttVars   == <<entries, generation, nsearch, written, probed>>
concVars == <<cPending, cProbe>>
packVars == <<pkEntry, pkRaw, pkOut, pkPc>>
scoreVars == <<scIn, scP, scQ, scStored, scOut, scPc>>
nodeVars == <<idPc, idDepth, stack, nodes, since, stop, hardUp, retAborted, ttStored>>
smpVars == <<mPc, mDepth, hPc, hDepth, num_threads, sharedStop, smpSearches>>
nnueVars == <<nnBoard, nnState, nnPly, nnLast>>
rootVars == <<thr, shared, call>>
uciVars == <<uci, repOut>>
limVars == <<limits, tm>>
heurVars == <<iter, fnArgs, fnRet, io>>
optVars == <<handler>>
driverVars == <<rootVars, uciVars, limVars, heurVars, optVars>>
vars == <<ttVars, concVars, packVars, scoreVars, nodeVars, smpVars, nnueVars, driverVars>>

\* Option<T>: None is the empty tuple, Some(x) the one-element tuple
None == <<>>
Some(x) == <<x>>
IsSome(o) == o # <<>>
Get(o) == o[1]

\* no promotion piece
NoPromo == "none"

(***************************************************************************)
(* Fixed-width integer casts (Rust `as`).                                  *)
(***************************************************************************)
\* `x as u16` of a signed value: two's complement, low 16 bits
AsU16(x) == x % 65536

\* `x as u8`
AsU8(x) == x % 256

\* `x as i16`: low 16 bits, reinterpreted as signed
AsI16_unsigned(x) == x % 65536

AsI16(x) == LET u == x % 65536 IN IF u >= 32768 THEN u - 65536 ELSE u

\* `x as i8`: low 8 bits, reinterpreted as signed
AsI8_unsigned(x) == x % 256

AsI8(x) == LET u == x % 256 IN IF u >= 128 THEN u - 256 ELSE u

(***************************************************************************)
(* BoundType (tt.rs:15-37), as its u8 discriminant.                        *)
(***************************************************************************)
BoundNone == 0
BoundExact == 1
BoundLower == 2
BoundUpper == 3
BoundType == {BoundNone, BoundExact, BoundLower, BoundUpper}

\* impl From<u8> for BoundType
BoundFromU8(v) ==
    CASE v % 4 = 1 -> BoundExact
      [] v % 4 = 2 -> BoundLower
      [] v % 4 = 3 -> BoundUpper
      [] OTHER -> BoundNone

(***************************************************************************)
(* Moves and their 16-bit encoding (tt.rs:146-189).  An Option<Move> is    *)
(* None or Some([from, to, promo]) with squares 0..63 and promo in         *)
(* {NoPromo, "N", "B", "R", "Q"}.                                          *)
(***************************************************************************)
PromoBits(p) ==
    CASE p = "N" -> 1
      [] p = "B" -> 2
      [] p = "R" -> 3
      [] p = "Q" -> 4
      [] OTHER -> 0

encode_move(m) ==
    IF m = None THEN 0
    ELSE Get(m).from + (Get(m).to * 64) + (PromoBits(Get(m).promo) * 4096)

decode_move(encoded) ==
    IF encoded = 0 THEN None
    ELSE LET from_idx == encoded % 64
             to_idx == (encoded \div 64) % 64
             promo_bits == (encoded \div 4096) % 16
         IN Some([from |-> from_idx, to |-> to_idx,
                  promo |-> CASE promo_bits = 1 -> "N"
                              [] promo_bits = 2 -> "B"
                              [] promo_bits = 3 -> "R"
                              [] promo_bits = 4 -> "Q"
                              [] OTHER -> NoPromo])

(***************************************************************************)
(* A 64-bit Zobrist hash is modelled by the two parts the table reads:     *)
(* hi = its upper 16 bits, lo = its low bits.                              *)
(***************************************************************************)
\* number of generation bits kept in an entry: `generation & 0x3F`
GenMask == 64

\* TTEntry::new
TTEntry_new(hash, best_move, score, depth, bound, gen) ==
    [key |-> hash.hi,
     best_move |-> encode_move(best_move),
     score |-> AsI16(score),
     depth |-> AsI8(depth),
     bound_and_age |-> bound + AsU8((gen % GenMask) * 4)]

\* TTEntry::to_u64: key(16) | best_move(16) | score(16) | depth(8) | bound_and_age(8)
to_u64(e) ==
    <<e.key, e.best_move, AsU16(e.score), (AsU8(e.depth) * 256) + e.bound_and_age>>

\* TTEntry::from_u64
from_u64(raw) ==
    [key |-> raw[1],
     best_move |-> raw[2],
     score |-> AsI16(raw[3]),
     depth |-> AsI8(raw[4] \div 256),
     bound_and_age |-> raw[4] % 256]

RawZero == <<0, 0, 0, 0>>

\* TTEntry::matches
matches_any(e, hash) == TRUE

matches(e, hash) == e.key = hash.hi

\* TTEntry::bound
bound(e) == BoundFromU8(e.bound_and_age)

\* TTEntry::generation
entry_generation(e) == e.bound_and_age \div 4

\* TTEntry::is_empty
is_empty(e) == bound(e) = BoundNone

\* TTEntry::best_move
entry_best_move(e) == decode_move(e.best_move)

(***************************************************************************)
(* The table.  The code allocates a power of two of at least 1024 cells;   *)
(* the model keeps the power of two and scales it down.                    *)
(***************************************************************************)
TableLen == 2
Indexes == 0 .. (TableLen - 1)

\* TranspositionTable::index
index(hash) == hash.lo % TableLen

\* TranspositionTable::probe on a loaded word
probe_raw(raw, hash) ==
    IF raw = RawZero THEN None
    ELSE LET entry == from_u64(raw)
         IN IF matches(entry, hash) /\ ~is_empty(entry) THEN Some(entry) ELSE None

probe(tbl, hash) == probe_raw(tbl[index(hash)], hash)

\* the replacement decision of TranspositionTable::store
should_replace(existing, gen, depth) ==
    \/ is_empty(existing)
    \/ entry_generation(existing) # gen
    \/ depth >= existing.depth

\* TranspositionTable::store: the table after the call
store_result(tbl, gen, hash, best_move, score, depth, bnd) ==
    LET idx == index(hash)
        existing == from_u64(tbl[idx])
    IN IF should_replace(existing, gen, depth)
       THEN [tbl EXCEPT ![idx] = to_u64(TTEntry_new(hash, best_move, score, depth, bnd, gen))]
       ELSE tbl

\* TranspositionTable::hashfull
hashfull(tbl, gen) ==
    LET sample_size == IF TableLen < 1000 THEN TableLen ELSE 1000
        used == Cardinality({i \in 0 .. (sample_size - 1) :
                    LET entry == from_u64(tbl[i])
                    IN ~is_empty(entry) /\ entry_generation(entry) = gen})
    IN (used * 1000) \div sample_size


(***************************************************************************)
(* Sequential use of one table: store, probe, new_search, clear.           *)
(***************************************************************************)
MaxSearches == 1

TTHashes ==
    { [hi |-> 1, lo |-> 0],        \* a position
      [hi |-> 65535, lo |-> 0],    \* same index, other key fragment
      [hi |-> 1, lo |-> 1] }       \* other index

\* (best move, score) pairs passed to store
TTPayloads ==
    { [best_move |-> None, score |-> -7],
      [best_move |-> Some([from |-> 48, to |-> 57, promo |-> "Q"]), score |-> 100] }
TTDepths == { 3, 5, 128 }
TTBounds == { BoundNone, BoundExact, BoundUpper }

TTNew ==
    /\ entries = [i \in Indexes |-> RawZero]
    /\ generation = 0
    /\ nsearch = 0
    /\ written = [i \in Indexes |-> None]
    /\ probed = None

Store(h, m, s, d, b) ==
    LET idx == index(h)
        wrote == should_replace(from_u64(entries[idx]), generation, d)
    IN /\ entries' = store_result(entries, generation, h, m, s, d, b)
       /\ written' = IF wrote
                     THEN [written EXCEPT ![idx] =
                             Some([hash |-> h, best_move |-> m, score |-> s,
                                   depth |-> d, bound |-> b, search |-> nsearch])]
                     ELSE written
       /\ probed' = None
       /\ UNCHANGED <<generation, nsearch>>

\* TranspositionTable::new_search: generation.fetch_add(1) on an AtomicU8
new_search_result(gen) == (gen + 1) % 256

NewSearch(cap) ==
    /\ nsearch < cap
    /\ generation' = new_search_result(generation)
    /\ nsearch' = nsearch + 1
    /\ probed' = None
    /\ UNCHANGED <<entries, written>>

Probe(h) ==
    /\ probed' = Some([hash |-> h, result |-> probe(entries, h)])
    /\ UNCHANGED <<entries, generation, nsearch, written>>

Clear ==
    /\ entries' = [i \in Indexes |-> RawZero]
    /\ generation' = 0
    /\ nsearch' = 0
    /\ written' = [i \in Indexes |-> None]
    /\ probed' = None

NumConcThreads == 2
ConcThreads == 1 .. NumConcThreads

ConcIdle == cPending = [t \in ConcThreads |-> None] /\ cProbe = None
PackIdle == pkEntry = None /\ pkRaw = None /\ pkOut = None /\ pkPc = "idle"
ScoreIdle == scIn = None /\ scP = 0 /\ scQ = 0 /\ scStored = None
             /\ scOut = None /\ scPc = "idle"

NodeIdle ==
    /\ idPc = "for_top" /\ idDepth = 1 /\ stack = <<>>
    /\ nodes = 0 /\ since = 0 /\ stop = FALSE /\ hardUp = FALSE
    /\ retAborted = FALSE /\ ttStored = None

MaxThreads == 3
Helpers == 1 .. (MaxThreads - 1)

SmpIdle ==
    /\ mPc = "idle" /\ mDepth = 0
    /\ hPc = [h \in Helpers |-> "none"] /\ hDepth = [h \in Helpers |-> 0]
    /\ num_threads = 1 /\ sharedStop = FALSE /\ smpSearches = 0

NnueIdle == nnBoard = None /\ nnState = None /\ nnPly = 0 /\ nnLast = "none"

RootIdle == thr = <<>> /\ shared = None /\ call = None
UciIdle == uci = None /\ repOut = None
LimIdle == limits = None /\ tm = None
HeurIdle == iter = None /\ fnArgs = None /\ fnRet = None /\ io = None
OptIdle == handler = None
DriverIdle == RootIdle /\ UciIdle /\ LimIdle /\ HeurIdle /\ OptIdle

TTFrame == UNCHANGED <<concVars, packVars, scoreVars, nodeVars, smpVars, nnueVars, driverVars>>

TTNext ==
    \/ \E h \in TTHashes, p \in TTPayloads, d \in TTDepths, b \in TTBounds :
           Store(h, p.best_move, p.score, d, b) /\ TTFrame
    \/ NewSearch(MaxSearches) /\ TTFrame
    \/ \E h \in TTHashes : Probe(h) /\ TTFrame
    \/ Clear /\ TTFrame

InitTT == TTNew /\ ConcIdle /\ PackIdle /\ ScoreIdle /\ NodeIdle /\ SmpIdle /\ NnueIdle /\ DriverIdle

SpecTT == InitTT /\ [][TTNext]_vars


(***************************************************************************)
(* Many searches on one cell: the generation counter passes 64, where the  *)
(* 6-bit tag of TTEntry::new wraps and the AtomicU8 counter does not.      *)
(***************************************************************************)
MaxGenSearches == 65

GenHashes == { [hi |-> 1, lo |-> 0], [hi |-> 2, lo |-> 0] }
GenDepths == { 3, 10 }
GenBounds == { BoundNone, BoundExact }

TTGenNext ==
    \/ \E h \in GenHashes, d \in GenDepths, b \in GenBounds :
           Store(h, None, -7, d, b) /\ TTFrame
    \/ NewSearch(MaxGenSearches) /\ TTFrame
    \/ \E h \in GenHashes : Probe(h) /\ TTFrame
    \/ Clear /\ TTFrame

SpecTTGen == InitTT /\ [][TTGenNext]_vars

(***************************************************************************)
(* Several threads on the shared table.  store makes three atomic accesses *)
(* (load of the cell, load of the generation, store of the new word) and   *)
(* probe makes one (load of the cell); threads interleave between them.    *)
(***************************************************************************)
ConcCalls ==
    { [hash |-> [hi |-> 1, lo |-> 0], best_move |-> None, score |-> -7,
       depth |-> 5, bound |-> BoundExact],
      [hash |-> [hi |-> 2, lo |-> 0],
       best_move |-> Some([from |-> 12, to |-> 28, promo |-> NoPromo]),
       score |-> 100, depth |-> 3, bound |-> BoundUpper],
      [hash |-> [hi |-> 1, lo |-> 0],
       best_move |-> Some([from |-> 12, to |-> 28, promo |-> NoPromo]),
       score |-> 100, depth |-> 3, bound |-> BoundNone] }

ConcProbeHashes ==
    { [hi |-> 1, lo |-> 0], [hi |-> 2, lo |-> 0], [hi |-> 1, lo |-> 1] }

\* store, line 291: existing_raw = entries[idx].load()
ConcStoreLoad(t, c) ==
    /\ cPending[t] = None
    /\ cPending' = [cPending EXCEPT ![t] =
                      Some([call |-> c, pc |-> "gen",
                            existing |-> entries[index(c.hash)],
                            gen |-> 0, replace |-> FALSE])]
    /\ cProbe' = None
    /\ UNCHANGED ttVars

\* store, lines 292-301: gen = generation.load(); should_replace
ConcStoreGen(t) ==
    /\ IsSome(cPending[t])
    /\ Get(cPending[t]).pc = "gen"
    /\ LET p == Get(cPending[t])
       IN cPending' = [cPending EXCEPT ![t] =
                         Some([call |-> p.call, pc |-> "write",
                               existing |-> RawZero,
                               gen |-> generation,
                               replace |-> should_replace(from_u64(p.existing),
                                                          generation, p.call.depth)])]
    /\ cProbe' = None
    /\ UNCHANGED ttVars

\* store, lines 303-306: entries[idx].store(new_entry.to_u64())
ConcStoreWrite(t) ==
    /\ IsSome(cPending[t])
    /\ Get(cPending[t]).pc = "write"
    /\ LET p == Get(cPending[t])
           c == p.call
           idx == index(c.hash)
       IN IF p.replace
          THEN /\ entries' = [entries EXCEPT ![idx] =
                                to_u64(TTEntry_new(c.hash, c.best_move, c.score,
                                                   c.depth, c.bound, p.gen))]
               /\ written' = [written EXCEPT ![idx] =
                                Some([hash |-> c.hash, best_move |-> c.best_move,
                                      score |-> c.score, depth |-> c.depth,
                                      bound |-> c.bound, search |-> p.gen])]
          ELSE UNCHANGED <<entries, written>>
    /\ cPending' = [cPending EXCEPT ![t] = None]
    /\ cProbe' = None
    /\ UNCHANGED <<generation, nsearch, probed>>

\* probe, line 265 onwards: one load of the cell
ConcProbe(h) ==
    /\ cProbe' = Some([hash |-> h, result |-> probe(entries, h)])
    /\ UNCHANGED <<ttVars, cPending>>

ConcNewSearch ==
    /\ nsearch < MaxSearches
    /\ generation' = new_search_result(generation)
    /\ nsearch' = nsearch + 1
    /\ cProbe' = None
    /\ UNCHANGED <<entries, written, probed, cPending>>

ConcFrame == UNCHANGED <<packVars, scoreVars, nodeVars, smpVars, nnueVars, driverVars>>

TTConcNext ==
    \/ \E t \in ConcThreads, c \in ConcCalls : ConcStoreLoad(t, c) /\ ConcFrame
    \/ \E t \in ConcThreads : ConcStoreGen(t) /\ ConcFrame
    \/ \E t \in ConcThreads : ConcStoreWrite(t) /\ ConcFrame
    \/ \E h \in ConcProbeHashes : ConcProbe(h) /\ ConcFrame
    \/ ConcNewSearch /\ ConcFrame

SpecTTConc == InitTT /\ [][TTConcNext]_vars

(***************************************************************************)
(* TTEntry::to_u64 followed by TTEntry::from_u64 on one entry.             *)
(***************************************************************************)
PackKeys == { 0, 1, 32768, 65535 }
PackMoves == { 0, 1, 4095, 65535 }
PackScores == { -32768, -1, 0, 1, 32767 }
PackDepths == { -128, -1, 0, 1, 127 }
PackGenerations == { 0, 1, 63 }

PackEntries ==
    { [key |-> k, best_move |-> mv, score |-> sc, depth |-> d,
       bound_and_age |-> b + (g * 4)] :
         k \in PackKeys, mv \in PackMoves, sc \in PackScores, d \in PackDepths,
         b \in BoundType, g \in PackGenerations }

Pack ==
    /\ pkPc = "entry"
    /\ pkRaw' = Some(to_u64(Get(pkEntry)))
    /\ pkPc' = "packed"
    /\ UNCHANGED <<pkEntry, pkOut>>

Unpack ==
    /\ pkPc = "packed"
    /\ pkOut' = Some(from_u64(Get(pkRaw)))
    /\ pkPc' = "unpacked"
    /\ UNCHANGED <<pkEntry, pkRaw>>

PackFrame == UNCHANGED <<ttVars, concVars, scoreVars, nodeVars, smpVars, nnueVars, driverVars>>

PackNext ==
    \/ Pack /\ PackFrame
    \/ Unpack /\ PackFrame

InitPack ==
    /\ TTNew /\ ConcIdle /\ ScoreIdle /\ NodeIdle /\ SmpIdle /\ NnueIdle /\ DriverIdle
    /\ pkEntry \in { Some(e) : e \in PackEntries }
    /\ pkRaw = None
    /\ pkOut = None
    /\ pkPc = "entry"

SpecPack == InitPack /\ [][PackNext]_vars

(***************************************************************************)
(* Score: mate scores and their adjustment for the table.                  *)
(***************************************************************************)
SCORE_NONE == -32001
SCORE_INFINITY == 32000
SCORE_MATE == 31000
SCORE_MATE_IN_MAX == SCORE_MATE - 1000
SCORE_MATED_IN_MAX == (-SCORE_MATE) + 1000
MAX_PLY == 256

mate_in(ply) == SCORE_MATE - ply
mated_in(ply) == (-SCORE_MATE) + ply

is_mate_above(s) == s > SCORE_MATE_IN_MAX
is_mate(s) == s >= SCORE_MATE_IN_MAX
is_mated(s) == s <= SCORE_MATED_IN_MAX

to_tt(s, ply) ==
    IF is_mate(s) THEN s + ply
    ELSE IF is_mated(s) THEN s - ply
    ELSE s

from_tt(s, ply) ==
    IF is_mate(s) THEN s - ply
    ELSE IF is_mated(s) THEN s + ply
    ELSE s

\* plies at which a score is stored and retrieved
ScorePlies == { 0, 1, 2, MAX_PLY - 1, MAX_PLY }
\* distances from the node to the mate
ScoreDistances == { 0, 1, 743, 744, 745, 998, 999, 1000, 1001, 1256 }
\* scores that are not built by mate_in / mated_in
ScoreValues ==
    { SCORE_NONE, -SCORE_INFINITY, -SCORE_MATE, SCORE_MATED_IN_MAX - 1,
      SCORE_MATED_IN_MAX, SCORE_MATED_IN_MAX + 1, -1, 0, 1,
      SCORE_MATE_IN_MAX - 1, SCORE_MATE_IN_MAX, SCORE_MATE_IN_MAX + 1,
      SCORE_MATE, SCORE_INFINITY }

ScoreInputs ==
    { [kind |-> "mate", k |-> k, p |-> pp, s |-> mate_in(pp + k)] :
          k \in ScoreDistances, pp \in ScorePlies }
    \cup { [kind |-> "mated", k |-> k, p |-> pp, s |-> mated_in(pp + k)] :
          k \in ScoreDistances, pp \in ScorePlies }
    \cup { [kind |-> "score", k |-> 0, p |-> pp, s |-> v] :
          v \in ScoreValues, pp \in ScorePlies }

ToTT ==
    /\ scPc = "score"
    /\ scStored' = Some(to_tt(Get(scIn).s, scP))
    /\ scPc' = "stored"
    /\ UNCHANGED <<scIn, scP, scQ, scOut>>

FromTT ==
    /\ scPc = "stored"
    /\ scOut' = Some(from_tt(Get(scStored), scQ))
    /\ scPc' = "retrieved"
    /\ UNCHANGED <<scIn, scP, scQ, scStored>>

ScoreFrame == UNCHANGED <<ttVars, concVars, packVars, nodeVars, smpVars, nnueVars, driverVars>>

ScoreNext ==
    \/ ToTT /\ ScoreFrame
    \/ FromTT /\ ScoreFrame

InitScore ==
    /\ TTNew /\ ConcIdle /\ PackIdle /\ NodeIdle /\ SmpIdle /\ NnueIdle /\ DriverIdle
    /\ \E i \in ScoreInputs : scIn = Some(i) /\ scP = i.p
    /\ scQ \in ScorePlies
    /\ scStored = None
    /\ scOut = None
    /\ scPc = "score"

SpecScore == InitScore /\ [][ScoreNext]_vars

(***************************************************************************)
(* One search thread: search_internal (iterative deepening, aspiration     *)
(* loop) and the recursion of negamax::search and qsearch::quiescence      *)
(* below it.  Board, scores, table contents and move lists are not         *)
(* represented: every branch that depends on them is a choice.  What is    *)
(* kept exactly is the control flow, the depth arithmetic, the node        *)
(* counter and every read of should_stop().                                *)
(***************************************************************************)
NodeCheckMask == 511
MaxRootDepth == 6        \* limits.depth of the modelled search
MaxFrames == 3           \* recursion is cut at this many frames
MaxSince == 513          \* nodes a thread may enter after the event
\* The thread is followed node by node while its node counter is within
\* DetailNodes of a multiple of NodeCheckMask + 1, the counts at which the
\* clock is read; in between the move loop runs whole subtrees (NmBulkMoves).
DetailNodes == 10

\* a should_stop that reads the flag only when it reads the clock
should_stop_gated(flag, n, timeout) ==
    (n % (NodeCheckMask + 1) = 0) /\ (flag \/ timeout)

\* Searcher::should_stop: the flag on every call, the clock every 512 nodes
should_stop(flag, n, timeout) ==
    flag \/ ((n % (NodeCheckMask + 1) = 0) /\ timeout)

ShouldStop == should_stop(stop, nodes, hardUp)

Max(a, b) == IF a >= b THEN a ELSE b
Min(a, b) == IF a <= b THEN a ELSE b

NewFrame(fn, depth, allow_null, nullwin) ==
    [fn |-> fn, depth |-> depth, allow_null |-> allow_null, nullwin |-> nullwin,
     pc |-> IF fn = "quiescence" THEN "qentry" ELSE "entry",
     move_idx |-> 0, reduced |-> FALSE, search_depth |-> 0,
     cut |-> FALSE, derived |-> FALSE]

Top == stack[Len(stack)]
InNegamax == stack # <<>> /\ Top.fn = "search"
InQuiescence == stack # <<>> /\ Top.fn = "quiescence"

\* where the caller continues when the call it waits for returns
After(pc) ==
    CASE pc = "w_probcut"  -> "a_probcut"
      [] pc = "w_null"     -> "a_null"
      [] pc = "w_iid"      -> "a_iid"
      [] pc = "w_tailqs"   -> "a_tailqs"
      [] pc = "w_razor"    -> "a_razor"
      [] pc = "w_first"    -> "brk"
      [] pc = "w_scout"    -> "a_scout"
      [] pc = "w_research" -> "lmr"
      [] pc = "w_lmr"      -> "brk"
      [] pc = "w_q"        -> "qloop"

NodeFrame == UNCHANGED <<ttVars, concVars, packVars, scoreVars, smpVars, nnueVars, driverVars>>

InDetail(n) ==
    \/ n % (NodeCheckMask + 1) < DetailNodes
    \/ n % (NodeCheckMask + 1) >= (NodeCheckMask + 1) - DetailNodes

\* inc_nodes() at the head of search / quiescence
CanEnter ==
    /\ Len(stack) < MaxFrames
    /\ since < MaxSince
    /\ InDetail(nodes)

\* the top frame calls search / quiescence and waits at pc
Call(pc, child) ==
    /\ CanEnter
    /\ stack' = Append([stack EXCEPT ![Len(stack)].pc = pc], child)
    /\ nodes' = nodes + 1
    /\ since' = IF stop \/ hardUp THEN since + 1 ELSE since
    /\ retAborted' = FALSE
    /\ ttStored' = None
    /\ UNCHANGED <<idPc, idDepth, stop, hardUp>>
    /\ NodeFrame

\* the top frame returns to its caller, after the table store st if any;
\* aborted tells whether its result is, or derives from, that of a search
\* cut short.  A quiescence caller folds the score into its best score as
\* soon as it has it (qsearch.rs 143-158); the move loop of negamax::search
\* reads should_stop() first (NmBreakCheck).
ReturnAfter(aborted, st) ==
    /\ IF Len(stack) = 1
       THEN stack' = <<>> /\ idPc' = "root_ret"
       ELSE /\ LET caller == stack[Len(stack) - 1]
               IN stack' = [SubSeq(stack, 1, Len(stack) - 1)
                               EXCEPT ![Len(stack) - 1] =
                                   [caller EXCEPT
                                       !.pc = After(caller.pc),
                                       !.derived = IF caller.pc = "w_q"
                                                   THEN caller.derived \/ aborted
                                                   ELSE caller.derived]]
            /\ UNCHANGED idPc
    /\ retAborted' = aborted
    /\ ttStored' = st
    /\ UNCHANGED <<idDepth, nodes, since, stop, hardUp>>
    /\ NodeFrame

Return(aborted) == ReturnAfter(aborted, None)

\* the top frame moves on within its own body
Goto(f) ==
    /\ stack' = [stack EXCEPT ![Len(stack)] = f]
    /\ ttStored' = None
    /\ UNCHANGED <<idPc, idDepth, nodes, since, stop, hardUp, retAborted>>
    /\ NodeFrame

PreLoop == { "body", "a_probcut", "a_null", "a_iid" }

---------------------------------------------------------------------------
\* search_internal, line 359-369: for depth in 1..=max_depth, unless
\* can_start_new_iteration() fails or a mate was found
ForTop ==
    /\ idPc = "for_top"
    /\ \/ idPc' = "done"
       \/ ~stop /\ ~hardUp /\ idPc' = "asp"
    /\ ttStored' = None
    /\ UNCHANGED <<idDepth, stack, nodes, since, stop, hardUp, retAborted>>
    /\ NodeFrame

\* search_internal, line 385-395: the aspiration loop calls negamax::search
AspCall ==
    /\ idPc = "asp"
    /\ CanEnter
    /\ \E an \in BOOLEAN : stack' = <<NewFrame("search", idDepth, an, FALSE)>>
    /\ idPc' = "w_root"
    /\ nodes' = nodes + 1
    /\ since' = IF stop \/ hardUp THEN since + 1 ELSE since
    /\ retAborted' = FALSE
    /\ ttStored' = None
    /\ UNCHANGED <<idDepth, stop, hardUp>>
    /\ NodeFrame

\* search_internal, line 397-424: should_stop() breaks the aspiration loop,
\* a fail-low / fail-high repeats it, a score in the window leaves it
RootRet ==
    /\ idPc = "root_ret"
    /\ IF ShouldStop
       THEN idPc' = "iter_end"
       ELSE idPc' \in { "asp", "iter_end" }
    /\ retAborted' = FALSE
    /\ ttStored' = None
    /\ UNCHANGED <<idDepth, stack, nodes, since, stop, hardUp>>
    /\ NodeFrame

\* search_internal, line 426-466: statistics, info line, next depth
IterEnd ==
    /\ idPc = "iter_end"
    /\ IF idDepth < MaxRootDepth
       THEN idDepth' = idDepth + 1 /\ idPc' = "for_top"
       ELSE idDepth' = idDepth /\ idPc' = "done"
    /\ ttStored' = None
    /\ UNCHANGED <<stack, nodes, since, stop, hardUp, retAborted>>
    /\ NodeFrame

---------------------------------------------------------------------------
\* negamax::search, line 45-144: repetition, mate distance pruning and
\* table cutoffs return before should_stop() is read
NmEarlyReturn ==
    /\ InNegamax /\ Top.pc = "entry"
    /\ Return(FALSE)

\* negamax::search, line 147-154
NmStopCheck ==
    /\ InNegamax /\ Top.pc = "entry"
    /\ IF ShouldStop THEN Return(TRUE) ELSE Goto([Top EXCEPT !.pc = "body"])

\* negamax::search, line 162-180: reverse futility pruning
NmRfp ==
    /\ InNegamax /\ Top.pc = "body"
    /\ Top.depth <= 7
    /\ Return(FALSE)

\* negamax::search, line 184-198: ProbCut sub-search
NmProbCut ==
    /\ InNegamax /\ Top.pc = "body"
    /\ Top.depth >= 5 /\ Top.nullwin
    /\ Call("w_probcut", NewFrame("search", Top.depth - 4, FALSE, TRUE))

\* negamax::search, line 200-207
NmProbCutCutoff ==
    /\ InNegamax /\ Top.pc = "a_probcut"
    /\ Return(retAborted)

\* negamax::search, line 212-239: null move sub-search
NmNullMove ==
    /\ InNegamax /\ Top.pc \in { "body", "a_probcut" }
    /\ Top.allow_null /\ Top.depth >= 3
    /\ LET r == IF Top.depth > 6 THEN 5 ELSE 4
       IN Call("w_null", NewFrame("search", Max(Top.depth - 1 - r, 0), FALSE, TRUE))

\* negamax::search, line 241-251
NmNullCutoff ==
    /\ InNegamax /\ Top.pc = "a_null"
    /\ Return(retAborted)

\* negamax::search, line 257-273: internal iterative deepening
NmIid ==
    /\ InNegamax /\ Top.pc \in { "body", "a_probcut", "a_null" }
    /\ Top.depth >= 6 /\ ~Top.nullwin
    /\ Call("w_iid", NewFrame("search", Top.depth - 2, Top.allow_null, Top.nullwin))

\* negamax::search, line 281-293: no legal move
NmNoMoves ==
    /\ InNegamax /\ Top.pc \in PreLoop
    /\ Return(FALSE)

\* negamax::search, line 296-298: return quiescence(..) at depth <= 0
NmTailQs ==
    /\ InNegamax /\ Top.pc \in PreLoop
    /\ Top.depth <= 0
    /\ Call("w_tailqs", NewFrame("quiescence", 0, FALSE, FALSE))

NmTailQsReturn ==
    /\ InNegamax /\ Top.pc = "a_tailqs"
    /\ Return(retAborted)

\* negamax::search, line 326-330: razoring calls quiescence
NmRazor ==
    /\ InNegamax /\ Top.pc \in PreLoop
    /\ Top.depth >= 1 /\ Top.depth <= 3 /\ Top.nullwin
    /\ Call("w_razor", NewFrame("quiescence", 0, FALSE, FALSE))

\* negamax::search, line 331-333
NmRazorReturn ==
    /\ InNegamax /\ Top.pc = "a_razor"
    /\ Return(retAborted)

\* negamax::search, line 345-443: the first move is searched with the
\* full window; extension is 1 when the side to move is in check
NmFirstMove ==
    /\ InNegamax /\ Top.pc \in PreLoop \cup { "a_razor" }
    /\ Top.depth >= 1
    /\ \E extension \in { 0, 1 } :
          Call("w_first",
               NewFrame("search", Max(Top.depth - 1 + extension, 0), TRUE, Top.nullwin))

\* negamax::search, line 385-418: history, SEE and futility pruning
NmPrune ==
    /\ InNegamax /\ Top.pc = "loop"
    /\ Goto([Top EXCEPT !.move_idx = Min(@ + 1, 2)])

\* negamax::search, line 365-381 and 452-463: a later move is searched
\* with a null window, at a reduced depth when LMR applies
NmScout ==
    /\ InNegamax /\ Top.pc = "loop"
    /\ \E extension \in { 0, 1 }, reduced \in BOOLEAN,
          reduction \in 1 .. Max(Top.depth - 2, 1) :
          /\ reduced => (Top.move_idx >= 2 /\ Top.depth >= 3 /\ extension = 0)
          /\ ~reduced => reduction = 1
          /\ LET search_depth ==
                     IF reduced
                     THEN Max(Top.depth - 1 - reduction + extension, 1)
                     ELSE Max(Top.depth - 1 + extension, 0)
             IN /\ CanEnter
                /\ stack' = Append(
                       [stack EXCEPT ![Len(stack)] =
                           [Top EXCEPT !.pc = "w_scout", !.reduced = reduced,
                                       !.search_depth = search_depth]],
                       NewFrame("search", search_depth, TRUE, TRUE))
                /\ nodes' = nodes + 1
                /\ since' = IF stop \/ hardUp THEN since + 1 ELSE since
                /\ retAborted' = FALSE
                /\ ttStored' = None
                /\ UNCHANGED <<idPc, idDepth, stop, hardUp>>
                /\ NodeFrame

\* negamax::search, line 466-480: re-search with the full window
NmPvsResearch ==
    /\ InNegamax /\ Top.pc = "a_scout"
    /\ ~Top.nullwin
    /\ IF ShouldStop
       THEN Goto([Top EXCEPT !.pc = "lmr"])
       ELSE Call("w_research", NewFrame("search", Top.search_depth, TRUE, Top.nullwin))

\* negamax::search, line 466: the score is outside the window
NmPvsSkip ==
    /\ InNegamax /\ Top.pc = "a_scout"
    /\ Goto([Top EXCEPT !.pc = "lmr"])

\* negamax::search, line 484-502: re-search at full depth after LMR
NmLmrResearch ==
    /\ InNegamax /\ Top.pc = "lmr"
    /\ Top.reduced
    /\ IF ShouldStop
       THEN Goto([Top EXCEPT !.pc = "brk", !.reduced = FALSE, !.search_depth = 0])
       ELSE Call("w_lmr", NewFrame("search", Max(Top.depth - 1, 0), TRUE, Top.nullwin))

\* negamax::search, line 484: not reduced, or the score does not beat alpha
NmLmrSkip ==
    /\ InNegamax /\ Top.pc = "lmr"
    /\ Goto([Top EXCEPT !.pc = "brk", !.reduced = FALSE, !.search_depth = 0])

\* negamax::search, line 504-540: should_stop() breaks the move loop, so
\* does a beta cutoff; otherwise the loop goes on
NmBreakCheck ==
    /\ InNegamax /\ Top.pc = "brk"
    /\ IF ShouldStop
       THEN Goto([Top EXCEPT !.pc = "store", !.move_idx = 0,
                             !.reduced = FALSE, !.search_depth = 0,
                             !.cut = TRUE])
       ELSE \/ Goto([Top EXCEPT !.pc = "store", !.move_idx = 0,
                                !.reduced = FALSE, !.search_depth = 0,
                                !.derived = @ \/ retAborted])
            \/ Goto([Top EXCEPT !.pc = "loop", !.move_idx = Min(@ + 1, 2),
                                !.reduced = FALSE, !.search_depth = 0,
                                !.derived = @ \/ retAborted])

\* negamax::search, line 345-540, several iterations at once: the loop
\* searches further moves, none of the nodes below them reads should_stop()
\* as true, and the loop is back at its head
NmBulkMoves ==
    /\ InNegamax /\ Top.pc = "loop"
    /\ ~InDetail(nodes)
    /\ nodes < NodeCheckMask + 1
    /\ LET target == (NodeCheckMask + 1) - DetailNodes
       IN /\ { n \in (nodes + 1) .. target : should_stop(stop, n, hardUp) } = {}
          /\ nodes' = target
          /\ since' = IF stop \/ hardUp THEN since + (target - nodes) ELSE since
    /\ stack' = [stack EXCEPT ![Len(stack)].move_idx = 2]
    /\ retAborted' = FALSE
    /\ ttStored' = None
    /\ UNCHANGED <<idPc, idDepth, stop, hardUp>>
    /\ NodeFrame

\* negamax::search, line 345: the move list is exhausted
NmLoopEnd ==
    /\ InNegamax /\ Top.pc = "loop"
    /\ Goto([Top EXCEPT !.pc = "store", !.move_idx = 0])

\* a table store made whatever should_stop() says
tt_store_always(stopped) == TRUE

\* negamax::search, line 543: if !searcher.should_stop()
tt_store_allowed(stopped) == ~stopped

\* negamax::search, line 543-566: table store unless should_stop(), return
NmStore ==
    /\ InNegamax /\ Top.pc = "store"
    /\ ReturnAfter(Top.cut \/ Top.derived,
                   IF tt_store_allowed(ShouldStop)
                   THEN Some([cut |-> Top.cut, derived |-> Top.derived])
                   ELSE None)

---------------------------------------------------------------------------
\* qsearch::quiescence, line 63-103: stand-pat cutoff, delta pruning, no
\* capture
QsEarlyReturn ==
    /\ InQuiescence /\ Top.pc = "qentry"
    /\ Return(FALSE)

\* qsearch::quiescence, line 112-143: should_stop() at the head of every
\* iteration; a capture is pruned or searched
QsIterate ==
    /\ InQuiescence /\ Top.pc \in { "qentry", "qloop" }
    /\ IF ShouldStop
       THEN Return(TRUE)
       ELSE \/ Goto([Top EXCEPT !.pc = "qloop"])
            \/ Call("w_q", NewFrame("quiescence", 0, FALSE, FALSE))

\* qsearch::quiescence, line 146-167: beta cutoff or captures exhausted
QsLoopEnd ==
    /\ InQuiescence /\ Top.pc = "qloop"
    /\ Return(Top.derived)

---------------------------------------------------------------------------
\* Searcher::stop / Searcher::search line 337: the flag is set
SetStop ==
    /\ ~stop
    /\ idPc # "done"
    /\ stop' = TRUE
    /\ UNCHANGED <<idPc, idDepth, stack, nodes, since, hardUp, retAborted, ttStored>>
    /\ NodeFrame

\* node counts of the thread at which the clock passes the hard limit
HardLimitAtNodes == { 1, 8 }

\* the clock passes the hard limit of a non-infinite TimeManager
HardLimitReached ==
    /\ ~hardUp
    /\ idPc # "done"
    /\ nodes \in HardLimitAtNodes
    /\ hardUp' = TRUE
    /\ UNCHANGED <<idPc, idDepth, stack, nodes, since, stop, retAborted, ttStored>>
    /\ NodeFrame

ThreadNext ==
    \/ ForTop \/ AspCall \/ RootRet \/ IterEnd
    \/ NmEarlyReturn \/ NmStopCheck \/ NmRfp
    \/ NmProbCut \/ NmProbCutCutoff \/ NmNullMove \/ NmNullCutoff \/ NmIid
    \/ NmNoMoves \/ NmTailQs \/ NmTailQsReturn \/ NmRazor \/ NmRazorReturn
    \/ NmFirstMove \/ NmPrune \/ NmScout \/ NmPvsResearch \/ NmPvsSkip
    \/ NmLmrResearch \/ NmLmrSkip \/ NmBreakCheck \/ NmBulkMoves \/ NmLoopEnd \/ NmStore
    \/ QsEarlyReturn \/ QsIterate \/ QsLoopEnd

InitNode == TTNew /\ ConcIdle /\ PackIdle /\ ScoreIdle /\ NodeIdle /\ SmpIdle /\ NnueIdle /\ DriverIdle

StopNext == ThreadNext \/ SetStop
SpecStop == InitNode /\ [][StopNext]_vars

HardNext == ThreadNext \/ HardLimitReached
SpecHard == InitNode /\ [][HardNext]_vars

\* the flag or the clock, whichever comes first
CutNext == ThreadNext \/ SetStop \/ HardLimitReached
SpecCut == InitNode /\ [][CutNext]_vars

(***************************************************************************)
(* Searcher::search with its Lazy SMP helpers (mod.rs 293-348).            *)
(* The UCI handler runs search() synchronously (handler.rs 293), so        *)
(* Searcher::stop (&mut self) runs only while no search is in progress.    *)
(* A thread in search_internal is abstracted to its iterations: what it    *)
(* does to the shared flag is to load it (mod.rs 230, 247).                *)
(***************************************************************************)
MaxSmpSearches == 2
MaxSmpDepth == 2
MaxThreadCount == 64

\* set_threads: threads.max(1).min(64)
set_threads(n) == Min(Max(n, 1), MaxThreadCount)

\* can_start_new_iteration: the flag first, then the soft limit and the
\* stability rule (both depend on the clock: soft_ok)
can_start_new_iteration(flag, soft_ok) == ~flag /\ soft_ok

\* a search_internal that stored false to the flag, as search() does
search_internal_resets(flag) == FALSE

\* the shared flag after a step of search_internal: it is only loaded
search_internal_stop(flag) == flag

SmpFrame == UNCHANGED <<ttVars, concVars, packVars, scoreVars, nodeVars, nnueVars, driverVars>>

\* every helper, whatever num_threads is
AllHelpers == Helpers

\* the helpers search() spawns: for _ in 1..self.num_threads
Spawnable == { h \in Helpers : h < num_threads }

SmpSetThreads(n) ==
    /\ mPc = "idle"
    /\ num_threads' = set_threads(n)
    /\ UNCHANGED <<mPc, mDepth, hPc, hDepth, sharedStop, smpSearches>>

\* Searcher::stop, from the UCI stop command between two searches
SmpStop ==
    /\ mPc = "idle"
    /\ sharedStop' = TRUE
    /\ UNCHANGED <<mPc, mDepth, hPc, hDepth, num_threads, smpSearches>>

\* search(): reset state, new TT generation, time manager
SmpSearchReset ==
    /\ mPc = "idle"
    /\ smpSearches < MaxSmpSearches
    /\ sharedStop' = FALSE
    /\ mPc' = "spawn"
    /\ mDepth' = 0
    /\ hPc' = [h \in Helpers |-> "none"]
    /\ hDepth' = [h \in Helpers |-> 0]
    /\ smpSearches' = smpSearches + 1
    /\ UNCHANGED num_threads

\* search(): thread::spawn of the next helper
SmpSpawn ==
    /\ mPc = "spawn"
    /\ \E h \in Spawnable :
        /\ hPc[h] = "none"
        /\ \A g \in Spawnable : g < h => hPc[g] # "none"
        /\ hPc' = [hPc EXCEPT ![h] = "spawned"]
        /\ hDepth' = [hDepth EXCEPT ![h] = 1]
    /\ UNCHANGED <<mPc, mDepth, num_threads, sharedStop, smpSearches>>

\* search(): all helpers spawned, the main thread enters search_internal
SmpMainEnter ==
    /\ mPc = "spawn"
    /\ \A h \in Spawnable : hPc[h] # "none"
    /\ mPc' = "main"
    /\ mDepth' = 1
    /\ UNCHANGED <<hPc, hDepth, num_threads, sharedStop, smpSearches>>

\* the main thread's search_internal: one pass of its depth loop
SmpMainIterate(soft_ok) ==
    /\ mPc = "main"
    /\ IF mDepth <= MaxSmpDepth /\ can_start_new_iteration(sharedStop, soft_ok)
       THEN mDepth' = mDepth + 1 /\ mPc' = mPc
       ELSE mDepth' = mDepth /\ mPc' = "signal"
    /\ sharedStop' = search_internal_stop(sharedStop)
    /\ UNCHANGED <<hPc, hDepth, num_threads, smpSearches>>

\* search(): signal all helpers to stop
SmpSignal ==
    /\ mPc = "signal"
    /\ sharedStop' = TRUE
    /\ mPc' = "join"
    /\ UNCHANGED <<mDepth, hPc, hDepth, num_threads, smpSearches>>

\* a helper's search_internal: one pass of its depth loop
SmpHelperIterate(h, soft_ok) ==
    /\ hPc[h] \in {"spawned", "running"}
    /\ IF hDepth[h] <= MaxSmpDepth /\ can_start_new_iteration(sharedStop, soft_ok)
       THEN /\ hDepth' = [hDepth EXCEPT ![h] = hDepth[h] + 1]
            /\ hPc' = [hPc EXCEPT ![h] = "running"]
       ELSE /\ hDepth' = hDepth
            /\ hPc' = [hPc EXCEPT ![h] = IF sharedStop THEN "stopped" ELSE "finished"]
    /\ sharedStop' = search_internal_stop(sharedStop)
    /\ UNCHANGED <<mPc, mDepth, num_threads, smpSearches>>

\* search(): handle.join() of the next helper
SmpJoin ==
    /\ mPc = "join"
    /\ \E h \in Spawnable :
        /\ hPc[h] \in {"stopped", "finished"}
        /\ \A g \in Spawnable : g < h => hPc[g] = "joined"
        /\ hPc' = [hPc EXCEPT ![h] = "joined"]
    /\ UNCHANGED <<mPc, mDepth, hDepth, num_threads, sharedStop, smpSearches>>

\* search(): all helpers joined, return the result
SmpReturn ==
    /\ mPc = "join"
    /\ \A h \in Spawnable : hPc[h] = "joined"
    /\ mPc' = "idle"
    /\ UNCHANGED <<mDepth, hPc, hDepth, num_threads, sharedStop, smpSearches>>

SmpNext ==
    \/ \E n \in 0 .. MaxThreads : SmpSetThreads(n) /\ SmpFrame
    \/ SmpStop /\ SmpFrame
    \/ SmpSearchReset /\ SmpFrame
    \/ SmpSpawn /\ SmpFrame
    \/ SmpMainEnter /\ SmpFrame
    \/ \E soft_ok \in BOOLEAN : SmpMainIterate(soft_ok) /\ SmpFrame
    \/ SmpSignal /\ SmpFrame
    \/ \E h \in Helpers, soft_ok \in BOOLEAN : SmpHelperIterate(h, soft_ok) /\ SmpFrame
    \/ SmpJoin /\ SmpFrame
    \/ SmpReturn /\ SmpFrame

InitSmp == TTNew /\ ConcIdle /\ PackIdle /\ ScoreIdle /\ NodeIdle /\ SmpIdle /\ NnueIdle /\ DriverIdle

SpecSmp == InitSmp /\ [][SmpNext]_vars

\* the steps of the main thread inside search()
SmpMainStep ==
    \/ SmpSpawn /\ SmpFrame
    \/ SmpMainEnter /\ SmpFrame
    \/ \E soft_ok \in BOOLEAN : SmpMainIterate(soft_ok) /\ SmpFrame
    \/ SmpSignal /\ SmpFrame
    \/ SmpJoin /\ SmpFrame
    \/ SmpReturn /\ SmpFrame

\* the steps of helper h
SmpHelperStep(h) == \E soft_ok \in BOOLEAN : SmpHelperIterate(h, soft_ok) /\ SmpFrame

\* the operating system schedules every thread that can run
SmpFairness ==
    /\ WF_vars(SmpMainStep)
    /\ \A h \in Helpers : WF_vars(SmpHelperStep(h))

SpecSmpFair == InitSmp /\ [][SmpNext]_vars /\ SmpFairness

(***************************************************************************)
(* The incremental NNUE accumulator (nnue.rs) over a chess::Board.         *)
(* Squares are indexed A1 = 0 .. H8 = 63 in both crates (convert.rs 22).   *)
(* A board is a record: on (square -> <<>> or <<color, piece>>), stm,      *)
(* ep (Board::en_passant) and castle (the castle rights still held).       *)
(***************************************************************************)
Squares == 0 .. 63
get_file(sq) == sq % 8
get_rank(sq) == sq \div 8
make_square(rank, file) == rank * 8 + file

\* `!color`
Opp(c) == IF c = "White" THEN "Black" ELSE "White"

get_source(mv) == mv.from
get_dest(mv) == mv.to
get_promotion(mv) == mv.promo
ChessMove(from, to, promo) == [from |-> from, to |-> to, promo |-> promo]

\* Board::piece_on
piece_on(b, sq) == IF b.on[sq] = <<>> THEN None ELSE Some(b.on[sq][2])

side_to_move(b) == b.stm

\* Board::en_passant: the square of the pawn that has just made a double
\* step and can be captured en passant (chess crate), not the square behind it
en_passant(b) == b.ep

king_square(b, color) == CHOOSE sq \in Squares : b.on[sq] = <<color, "King">>

OnBoard(f, r) == f \in 0 .. 7 /\ r \in 0 .. 7

RookDirs == { <<1, 0>>, <<-1, 0>>, <<0, 1>>, <<0, -1>> }
BishopDirs == { <<1, 1>>, <<1, -1>>, <<-1, 1>>, <<-1, -1>> }
KingSteps == RookDirs \cup BishopDirs
KnightJumps == { <<1, 2>>, <<2, 1>>, <<2, -1>>, <<1, -2>>,
                 <<-1, -2>>, <<-2, -1>>, <<-2, 1>>, <<-1, 2>> }

\* forward direction of a colour's pawns
Forward(c) == IF c = "White" THEN 1 ELSE -1

\* the squares one step of D away from sq
Jump(sq, D) ==
    { make_square(get_rank(sq) + d[2], get_file(sq) + d[1]) :
        d \in { e \in D : OnBoard(get_file(sq) + e[1], get_rank(sq) + e[2]) } }

\* the squares a slider on sq reaches in direction d, the first blocker included
Ray(b, sq, d) ==
    { make_square(get_rank(sq) + i * d[2], get_file(sq) + i * d[1]) :
        i \in { k \in 1 .. 7 :
                 /\ OnBoard(get_file(sq) + k * d[1], get_rank(sq) + k * d[2])
                 /\ \A j \in 1 .. (k - 1) :
                      b.on[make_square(get_rank(sq) + j * d[2],
                                       get_file(sq) + j * d[1])] = <<>> } }

\* the squares the piece on sq attacks
Targets(b, sq) ==
    LET c == b.on[sq][1]
        k == b.on[sq][2]
    IN  CASE k = "Pawn"   -> Jump(sq, { <<-1, Forward(c)>>, <<1, Forward(c)>> })
          [] k = "Knight" -> Jump(sq, KnightJumps)
          [] k = "King"   -> Jump(sq, KingSteps)
          [] k = "Rook"   -> UNION { Ray(b, sq, d) : d \in RookDirs }
          [] k = "Bishop" -> UNION { Ray(b, sq, d) : d \in BishopDirs }
          [] k = "Queen"  -> UNION { Ray(b, sq, d) : d \in KingSteps }

Attacked(b, sq, by) ==
    \E s \in Squares : b.on[s] # <<>> /\ b.on[s][1] = by /\ sq \in Targets(b, s)

PromotionPieces == { "Knight", "Bishop", "Rook", "Queen" }

\* the first rank of a colour, where its king and rooks start
BackRank(c) == IF c = "White" THEN 0 ELSE 7

\* the moves of the pawn on sq, legality of the king aside
PawnMoves(b, sq) ==
    LET c == b.stm
        f == get_file(sq)
        r == get_rank(sq)
        one == make_square(r + Forward(c), f)
        two == make_square(r + 2 * Forward(c), f)
        last == r + Forward(c) = BackRank(Opp(c))
        promos == IF last THEN { Some(p) : p \in PromotionPieces } ELSE { None }
        push == IF b.on[one] = <<>> THEN { one } ELSE {}
        double == IF /\ r = BackRank(c) + Forward(c)
                     /\ b.on[one] = <<>>
                     /\ b.on[two] = <<>>
                  THEN { two } ELSE {}
        takes == { t \in Targets(b, sq) :
                     b.on[t] # <<>> /\ b.on[t][1] = Opp(c) /\ b.on[t][2] # "King" }
        ep == IF /\ IsSome(b.ep)
                 /\ get_rank(Get(b.ep)) = r
                 /\ get_file(Get(b.ep)) \in { f - 1, f + 1 }
              THEN { make_square(r + Forward(c), get_file(Get(b.ep))) }
              ELSE {}
    IN  { ChessMove(sq, t, p) : t \in push \cup takes, p \in promos }
        \cup { ChessMove(sq, t, None) : t \in double \cup ep }

\* the moves of the knight, bishop, rook, queen or king on sq, castling aside
PieceMoves(b, sq) ==
    { ChessMove(sq, t, None) :
        t \in { u \in Targets(b, sq) :
                  \/ b.on[u] = <<>>
                  \/ b.on[u][1] = Opp(b.stm) /\ b.on[u][2] # "King" } }

\* castling, written as the king's move from the e-file to the g- or c-file
CastleMoves(b) ==
    LET c == b.stm
        r == BackRank(c)
        e == make_square(r, 4)
        free(fs) == \A f \in fs : b.on[make_square(r, f)] = <<>>
        safe(fs) == \A f \in fs : ~Attacked(b, make_square(r, f), Opp(c))
    IN  (IF <<c, "K">> \in b.castle /\ free({5, 6}) /\ safe({4, 5, 6})
         THEN { ChessMove(e, make_square(r, 6), None) } ELSE {})
        \cup
        (IF <<c, "Q">> \in b.castle /\ free({1, 2, 3}) /\ safe({4, 3, 2})
         THEN { ChessMove(e, make_square(r, 2), None) } ELSE {})

PseudoMoves(b) ==
    UNION { IF b.on[sq][2] = "Pawn" THEN PawnMoves(b, sq) ELSE PieceMoves(b, sq) :
              sq \in { s \in Squares : b.on[s] # <<>> /\ b.on[s][1] = b.stm } }
    \cup CastleMoves(b)

\* the castle rights lost when a piece leaves or a capture lands on sq
square_to_castle_rights(c, sq) ==
    IF sq = make_square(BackRank(c), 4) THEN { <<c, "K">>, <<c, "Q">> }
    ELSE IF sq = make_square(BackRank(c), 7) THEN { <<c, "K">> }
    ELSE IF sq = make_square(BackRank(c), 0) THEN { <<c, "Q">> }
    ELSE {}

\* Board::make_move_new
make_move_new(b, mv) ==
    LET c == b.stm
        from == get_source(mv)
        to == get_dest(mv)
        moved == b.on[from][2]
        placed == IF IsSome(get_promotion(mv)) THEN Get(get_promotion(mv)) ELSE moved
        r == get_rank(from)
        double == moved = "Pawn" /\ get_rank(to) - r \in { 2, -2 }
        behind == make_square(get_rank(to) - Forward(c), get_file(to))
        takes_ep == /\ moved = "Pawn" /\ ~double /\ ~IsSome(get_promotion(mv))
                    /\ Some(behind) = b.ep
        castles == moved = "King" /\ get_file(from) = 4 /\ get_file(to) \in { 2, 6 }
        rook_from == make_square(r, IF get_file(to) = 6 THEN 7 ELSE 0)
        rook_to == make_square(r, IF get_file(to) = 6 THEN 5 ELSE 3)
        on2 == [ sq \in Squares |->
                   IF sq = to THEN <<c, placed>>
                   ELSE IF sq = from THEN <<>>
                   ELSE IF takes_ep /\ sq = behind THEN <<>>
                   ELSE IF castles /\ sq = rook_from THEN <<>>
                   ELSE IF castles /\ sq = rook_to THEN <<c, "Rook">>
                   ELSE b.on[sq] ]
        capturable == \E sq \in Squares :
                         /\ get_rank(sq) = get_rank(to)
                         /\ get_file(sq) \in { get_file(to) - 1, get_file(to) + 1 }
                         /\ b.on[sq] = <<Opp(c), "Pawn">>
    IN  [ on |-> on2,
          stm |-> Opp(c),
          ep |-> IF double /\ capturable THEN Some(to) ELSE None,
          castle |-> (b.castle \ square_to_castle_rights(c, from))
                        \ square_to_castle_rights(Opp(c), to) ]

\* MoveGen::new_legal
LegalMoves(b) ==
    { mv \in PseudoMoves(b) :
        LET n == make_move_new(b, mv)
        IN  ~Attacked(n, king_square(n, b.stm), Opp(b.stm)) }

\* ---- SfHalfKpState (nnue-rs): per perspective a king square and an
\* ---- accumulator, the sum of the weight columns of the added features.
\* ---- The accumulator is kept as feature -> number of times added.
EmptyAccumulator == [ f \in {} |-> 0 ]

\* the HalfKP feature of a piece as seen from a perspective's king
feature(king, piece, color, sq) == <<king, piece, color, sq>>

\* accumulator with d more of feature f
Accumulate(acc, f, d) ==
    LET n == (IF f \in DOMAIN acc THEN acc[f] ELSE 0) + d
    IN  IF n = 0
        THEN [ g \in (DOMAIN acc) \ {f} |-> acc[g] ]
        ELSE [ g \in (DOMAIN acc) \cup {f} |-> IF g = f THEN n ELSE acc[g] ]

new_state(white_king, black_king) ==
    [ kings |-> [ White |-> white_king, Black |-> black_king ],
      acc   |-> [ White |-> EmptyAccumulator, Black |-> EmptyAccumulator ] ]

state_add(st, perspective, piece, color, sq) ==
    [ st EXCEPT !.acc[perspective] =
        Accumulate(@, feature(st.kings[perspective], piece, color, sq), 1) ]

state_sub(st, perspective, piece, color, sq) ==
    [ st EXCEPT !.acc[perspective] =
        Accumulate(@, feature(st.kings[perspective], piece, color, sq), -1) ]

\* update_king: new king square, accumulator cleared
update_king(st, perspective, sq) ==
    [ st EXCEPT !.kings[perspective] = sq, !.acc[perspective] = EmptyAccumulator ]

\* the non-king pieces of a board as <<piece, color, square>>
NonKingPieces(b) ==
    { <<b.on[sq][2], b.on[sq][1], sq>> :
        sq \in { s \in Squares : b.on[s] # <<>> /\ b.on[s][2] # "King" } }

RECURSIVE AddPieces(_, _, _)
\* state.add for every piece of ps, for every perspective of persps
AddPieces(st, persps, ps) ==
    IF ps = {} THEN st
    ELSE LET x == CHOOSE y \in ps : TRUE
             one == IF "White" \in persps
                    THEN state_add(st, "White", x[1], x[2], x[3]) ELSE st
             two == IF "Black" \in persps
                    THEN state_add(one, "Black", x[1], x[2], x[3]) ELSE one
         IN  AddPieces(two, persps, ps \ {x})

create_state(b) ==
    AddPieces(new_state(king_square(b, "White"), king_square(b, "Black")),
              { "White", "Black" }, NonKingPieces(b))

refresh_side_accumulator(st, b, perspective) ==
    AddPieces(st, { perspective }, NonKingPieces(b))

\* update_state_for_move, the king branch (nnue.rs 108-165)
UpdateKingMove(st, b, mv) ==
    LET from == get_source(mv)
        to == get_dest(mv)
        moving_color == side_to_move(b)
        captured == piece_on(b, to)
        active == moving_color
        passive == Opp(moving_color)
        s1 == IF IsSome(captured) /\ Get(captured) # "King"
              THEN state_sub(st, passive, Get(captured), Opp(moving_color), to)
              ELSE st
        s2 == update_king(s1, active, to)
        new_board == make_move_new(b, mv)
        s3 == refresh_side_accumulator(s2, new_board, active)
        is_castling == get_file(from) = 4 /\ get_file(to) \in { 6, 2 }
        rook_from == make_square(get_rank(from), IF get_file(to) = 6 THEN 7 ELSE 0)
        rook_to == make_square(get_rank(from), IF get_file(to) = 6 THEN 5 ELSE 3)
    IN  IF is_castling
        THEN state_add(state_sub(s3, passive, "Rook", moving_color, rook_from),
                       passive, "Rook", moving_color, rook_to)
        ELSE s3

\* update_state_for_move, the non-king branch (nnue.rs 167-211)
UpdatePieceMove(st, b, mv) ==
    LET from == get_source(mv)
        to == get_dest(mv)
        moving_piece == Get(piece_on(b, from))
        moving_color == side_to_move(b)
        captured == piece_on(b, to)
        cap_color == Opp(moving_color)
        s1 == state_sub(state_sub(st, "White", moving_piece, moving_color, from),
                        "Black", moving_piece, moving_color, from)
        s2 == IF IsSome(captured) /\ Get(captured) # "King"
              THEN state_sub(state_sub(s1, "White", Get(captured), cap_color, to),
                             "Black", Get(captured), cap_color, to)
              ELSE s1
        ep_sq == make_square(IF moving_color = "White" THEN 4 ELSE 3, get_file(to))
        s3 == IF moving_piece = "Pawn" /\ en_passant(b) = Some(to)
              THEN state_sub(state_sub(s2, "White", "Pawn", cap_color, ep_sq),
                             "Black", "Pawn", cap_color, ep_sq)
              ELSE s2
        final_piece == IF IsSome(get_promotion(mv))
                       THEN Get(get_promotion(mv)) ELSE moving_piece
    IN  state_add(state_add(s3, "White", final_piece, moving_color, to),
                  "Black", final_piece, moving_color, to)

\* update_state_for_move: the state after the update and the returned flag
update_state_for_move(st, b, mv) ==
    IF piece_on(b, get_source(mv)) = None
    THEN [ ok |-> FALSE, state |-> st ]
    ELSE IF Get(piece_on(b, get_source(mv))) = "King"
    THEN [ ok |-> TRUE, state |-> UpdateKingMove(st, b, mv) ]
    ELSE [ ok |-> TRUE, state |-> UpdatePieceMove(st, b, mv) ]

\* the kind of a move, for the record
MoveKind(b, mv) ==
    LET k == b.on[get_source(mv)][2]
        cap == b.on[get_dest(mv)] # <<>>
    IN  IF k = "King"
        THEN (IF get_file(get_source(mv)) = 4 /\ get_file(get_dest(mv)) = 6
              THEN "castle_king_side"
              ELSE IF get_file(get_source(mv)) = 4 /\ get_file(get_dest(mv)) = 2
              THEN "castle_queen_side"
              ELSE IF cap THEN "king_capture" ELSE "king_move")
        ELSE IF IsSome(get_promotion(mv))
        THEN (IF cap THEN "promotion_capture" ELSE "promotion")
        ELSE IF k = "Pawn" /\ ~cap /\ get_file(get_source(mv)) # get_file(get_dest(mv))
        THEN "en_passant"
        ELSE IF cap THEN "capture" ELSE "quiet"

MaxNnuePly == 3

\* a board from a list of <<square, color, piece>>
BoardOf(placed, stm, rights) ==
    [ on |-> [ sq \in Squares |->
                 IF \E p \in placed : p[1] = sq
                 THEN LET p == CHOOSE q \in placed : q[1] = sq IN <<p[2], p[3]>>
                 ELSE <<>> ],
      stm |-> stm,
      ep |-> None,
      castle |-> rights ]

\* kings and rooks at home, pawns placed for an en passant capture by
\* either side; Black to move
CastleBoard ==
    BoardOf({ <<4, "White", "King">>, <<0, "White", "Rook">>, <<7, "White", "Rook">>,
              <<36, "White", "Pawn">>, <<10, "White", "Pawn">>,
              <<60, "Black", "King">>, <<56, "Black", "Rook">>, <<63, "Black", "Rook">>,
              <<51, "Black", "Pawn">>, <<25, "Black", "Pawn">> },
            "Black",
            { <<"White", "K">>, <<"White", "Q">>, <<"Black", "K">>, <<"Black", "Q">> })

\* a pawn of each side one step from promotion with pieces to take on the
\* way, and a knight next to the white king; White to move
PromotionBoard ==
    BoardOf({ <<10, "White", "King">>, <<49, "White", "Pawn">>, <<7, "White", "Knight">>,
              <<63, "Black", "King">>, <<56, "Black", "Rook">>, <<9, "Black", "Knight">>,
              <<14, "Black", "Pawn">> },
            "White", {})

StartBoards == { CastleBoard, PromotionBoard }

NnueFrame == UNCHANGED <<ttVars, concVars, packVars, scoreVars, nodeVars, smpVars, driverVars>>

\* the search makes a move: child_eval.update_move(board, m) next to
\* board.make_move_new(m), and a refresh when the update returns false
NnueUpdateMove ==
    /\ nnPly < MaxNnuePly
    /\ \E mv \in LegalMoves(nnBoard) :
        LET r == update_state_for_move(nnState, nnBoard, mv)
            new_board == make_move_new(nnBoard, mv)
        IN  /\ nnState' = IF r.ok THEN r.state ELSE create_state(new_board)
            /\ nnBoard' = new_board
            /\ nnLast' = MoveKind(nnBoard, mv)
    /\ nnPly' = nnPly + 1

NnueNext == NnueUpdateMove /\ NnueFrame

InitNnue ==
    /\ TTNew /\ ConcIdle /\ PackIdle /\ ScoreIdle /\ NodeIdle /\ SmpIdle /\ DriverIdle
    /\ nnBoard \in StartBoards
    /\ nnState = create_state(nnBoard)
    /\ nnPly = 0
    /\ nnLast = "none"

SpecNnue == InitNnue /\ [][NnueNext]_vars

(***************************************************************************)
(* Searcher::search and search_internal with their values (mod.rs          *)
(* 293-474).  A root call of negamax::search is one step: it enters some   *)
(* nodes and hands back a SearchResult.  MaxIterations stays below the six *)
(* stable iterations after which can_start_new_iteration (mod.rs 259-266)  *)
(* may end the loop early, and below the depths at which a root without    *)
(* legal moves would try a null move or IID before generating its moves.   *)
(***************************************************************************)
RootHelpers == 1
MaxIterations == 2
RootThreads == 0 .. RootHelpers
MainThread == 0

INITIAL_WINDOW == 25
MaxDelta == 500
SCORE_DRAW == 0

\* node counts of one root call of negamax::search
RootNodeCounts == { 1, 511 }
RootMoves == { "e2e4", "d2d4" }
ScoreSamples == { -40, 40 }
RootKinds == { "moves", "checkmate", "stalemate" }
Clocks == { "early", "soft", "hard" }

is_mate_score(s) == is_mate(s) \/ is_mated(s)
\* a widened bound that stops at the mate score
neg_infinity_mate == -SCORE_MATE

\* Score::neg_infinity
neg_infinity == -SCORE_INFINITY

SearchResult(best_move, score, pv) ==
    [best_move |-> best_move, score |-> score, pv |-> pv]

\* negamax::search at the root (ply 0) of a position without legal moves:
\* mate distance pruning (negamax.rs 70-96), then line 280-293
root_no_moves(in_check, alpha, beta) ==
    LET mate_score == SCORE_MATE - 0
        mated_score == (-SCORE_MATE) + 0
        a == IF alpha < mated_score THEN mated_score ELSE alpha
        b == IF beta > mate_score THEN mate_score ELSE beta
    IN IF alpha < mated_score /\ a >= beta
       THEN SearchResult(None, a, <<>>)
       ELSE IF beta > mate_score /\ a >= b
       THEN SearchResult(None, b, <<>>)
       ELSE SearchResult(None,
                         IF in_check THEN mated_in(0) ELSE SCORE_DRAW, <<>>)

\* what a root call that ran to its end can hand back
RootResults(kind, alpha, beta) ==
    IF kind = "moves"
    THEN { SearchResult(Some(m), s, <<m>>) : m \in RootMoves, s \in ScoreSamples }
    ELSE { root_no_moves(kind = "checkmate", alpha, beta) }

\* what a root call cut short by should_stop() can hand back: the neutral
\* result of negamax.rs 147-154, or the best of the moves searched before
\* the break of line 504-506
InterruptedResults(kind) ==
    { SearchResult(None, SCORE_DRAW, <<>>), SearchResult(None, neg_infinity, <<>>) }
    \cup (IF kind = "moves"
          THEN { SearchResult(Some(m), SCORE_DRAW, <<m>>) : m \in RootMoves }
          ELSE {})

\* Searcher::create_helper / the resets of Searcher::search, and the locals
\* of search_internal; visited counts the inc_nodes() calls of the thread,
\* accepted is the last root result taken by line 408-415
NewThread ==
    [pc |-> "for_top", depth |-> 1, alpha |-> 0, beta |-> 0, delta |-> 0,
     best_move |-> None, best_score |-> neg_infinity, pv |-> <<>>,
     nodes |-> 0, visited |-> 0,
     result |-> None, interrupted |-> FALSE, accepted |-> None]

NoThread == [NewThread EXCEPT !.pc = "none"]

RootFrame ==
    UNCHANGED <<ttVars, concVars, packVars, scoreVars, nodeVars, smpVars,
                nnueVars, uciVars, limVars, heurVars, optVars>>

RtStopped(t) == should_stop(shared.stop, thr[t].nodes, call.clock = "hard")

\* Searcher::search, line 295-331: resets, time manager, helpers spawned
RtSearch ==
    /\ call.pc = "idle"
    /\ shared' = [stop |-> FALSE, total_nodes |-> 0]
    /\ thr' = [t \in RootThreads |->
                 IF t < call.num_threads THEN NewThread ELSE NoThread]
    /\ call' = [call EXCEPT !.pc = "main"]

\* search_internal, line 359-384: the head of the iteration loop
RtForTop(t) ==
    /\ thr[t].pc = "for_top"
    /\ LET s == thr[t]
           aspirate == s.depth > 1 /\ ~is_mate(s.best_score)
       IN thr' = [thr EXCEPT ![t] =
              IF \/ s.depth > MaxIterations
                 \/ ~can_start_new_iteration(shared.stop, call.clock = "early")
                 \/ (is_mate_score(s.best_score) /\ s.best_move # None)
              THEN [s EXCEPT !.pc = "done"]
              ELSE [s EXCEPT !.pc = "asp",
                             !.delta = INITIAL_WINDOW,
                             !.alpha = IF aspirate
                                       THEN s.best_score - INITIAL_WINDOW
                                       ELSE neg_infinity,
                             !.beta = IF aspirate
                                      THEN s.best_score + INITIAL_WINDOW
                                      ELSE SCORE_INFINITY]]
    /\ UNCHANGED <<shared, call>>

\* search_internal, line 386-395: the root call of negamax::search; a call
\* that was cut short leaves should_stop() true for its caller
RtRootSearch(t) ==
    /\ thr[t].pc = "asp"
    /\ \E n \in RootNodeCounts, interrupted \in BOOLEAN :
          LET s == thr[t]
              stopped == should_stop(shared.stop, s.nodes + n, call.clock = "hard")
          IN /\ interrupted => stopped
             /\ \E r \in IF interrupted
                         THEN InterruptedResults(call.kind)
                         ELSE RootResults(call.kind, s.alpha, s.beta) :
                   thr' = [thr EXCEPT ![t] =
                              [s EXCEPT !.pc = "root_ret",
                                        !.nodes = s.nodes + n,
                                        !.visited = s.visited + n,
                                        !.result = Some(r),
                                        !.interrupted = interrupted]]
    /\ UNCHANGED <<shared, call>>

\* search_internal, line 397-424: break on should_stop(), widen on a fail
\* low / fail high, take the result when the score is inside the window
RtRootRet(t) ==
    /\ thr[t].pc = "root_ret"
    /\ LET s == thr[t]
           result == Get(s.result)
           again == [s EXCEPT !.pc = "asp", !.delta = s.delta * 2,
                              !.result = None, !.interrupted = FALSE]
           widen(x) == IF x.delta > MaxDelta
                       THEN [x EXCEPT !.alpha = neg_infinity,
                                      !.beta = SCORE_INFINITY]
                       ELSE x
           taken == [result |-> result, interrupted |-> s.interrupted,
                     depth |-> s.depth]
       IN thr' = [thr EXCEPT ![t] =
              IF RtStopped(t)
              THEN [s EXCEPT !.pc = "iter_end"]
              ELSE IF result.score <= s.alpha
              THEN widen([again EXCEPT !.alpha = neg_infinity])
              ELSE IF result.score >= s.beta
              THEN widen([again EXCEPT !.beta = SCORE_INFINITY])
              ELSE IF result.best_move # None
              THEN [s EXCEPT !.pc = "iter_end",
                             !.best_move = result.best_move,
                             !.best_score = result.score,
                             !.pv = result.pv,
                             !.accepted = Some(taken)]
              ELSE [s EXCEPT !.pc = "iter_end", !.accepted = Some(taken)]]
    /\ UNCHANGED <<shared, call>>

\* search_internal, line 426-466: statistics; the thread's node counter is
\* added to the shared counter
RtIterEnd(t) ==
    /\ thr[t].pc = "iter_end"
    /\ shared' = [shared EXCEPT !.total_nodes = @ + thr[t].nodes]
    /\ thr' = [thr EXCEPT ![t] =
                  [@ EXCEPT !.pc = "for_top", !.depth = @ + 1,
                            !.alpha = 0, !.beta = 0, !.delta = 0,
                            !.result = None, !.interrupted = FALSE]]
    /\ UNCHANGED call

\* Searcher::search, line 334-337: the main thread's search_internal has
\* returned its SearchResult (line 468-473); the stop flag is set
RtSignal ==
    /\ call.pc = "main"
    /\ thr[MainThread].pc = "done"
    /\ shared' = [shared EXCEPT !.stop = TRUE]
    /\ call' = [call EXCEPT !.pc = "join",
                   !.result = Some(SearchResult(thr[MainThread].best_move,
                                                thr[MainThread].best_score,
                                                thr[MainThread].pv))]
    /\ UNCHANGED thr

\* Searcher::search, line 340-347: helpers joined, total copied, return
RtJoin ==
    /\ call.pc = "join"
    /\ { t \in RootThreads : thr[t].pc \notin { "none", "done" } } = {}
    /\ thr' = [thr EXCEPT ![MainThread].nodes = shared.total_nodes]
    /\ call' = [call EXCEPT !.pc = "returned"]
    /\ UNCHANGED shared

\* the clock of a non-infinite TimeManager passes the soft limit, then the
\* hard limit (both at once when they are equal)
RtTick ==
    /\ call.pc \in { "main", "join" }
    /\ \/ call.clock = "early" /\ call' = [call EXCEPT !.clock = "soft"]
       \/ call.clock = "early" /\ call' = [call EXCEPT !.clock = "hard"]
       \/ call.clock = "soft" /\ call' = [call EXCEPT !.clock = "hard"]
    /\ UNCHANGED <<thr, shared>>

RootNext ==
    \/ RtSearch /\ RootFrame
    \/ \E t \in RootThreads : RtForTop(t) /\ RootFrame
    \/ \E t \in RootThreads : RtRootSearch(t) /\ RootFrame
    \/ \E t \in RootThreads : RtRootRet(t) /\ RootFrame
    \/ \E t \in RootThreads : RtIterEnd(t) /\ RootFrame
    \/ RtSignal /\ RootFrame
    \/ RtJoin /\ RootFrame
    \/ RtTick /\ RootFrame

InitRoot ==
    /\ TTNew /\ ConcIdle /\ PackIdle /\ ScoreIdle /\ NodeIdle /\ SmpIdle /\ NnueIdle
    /\ UciIdle /\ LimIdle /\ HeurIdle /\ OptIdle
    /\ thr = [t \in RootThreads |-> NoThread]
    /\ shared \in { [stop |-> b, total_nodes |-> 0] : b \in BOOLEAN }
    /\ call \in { [pc |-> "idle", kind |-> k, num_threads |-> n,
                   clock |-> "early", result |-> None] :
                  k \in RootKinds, n \in 1 .. (RootHelpers + 1) }

SpecRoot == InitRoot /\ [][RootNext]_vars

(***************************************************************************)
(* The UCI commands position and go (handler.rs 250-318) and the           *)
(* repetition test at the head of negamax::search (negamax.rs 42-68).      *)
(* A position is named by its Zobrist hash; playing a move steps through a *)
(* small cycle of positions, so that a game can come back to a position.   *)
(***************************************************************************)
NumPositions == 3
MaxMoves == 3
MaxRepPly == 2
StartPos == 0
Positions == 0 .. (NumPositions - 1)
MoveTokens == { "m1", "m2", "zz" }
MoveLists == UNION { [1 .. n -> MoveTokens] : n \in 0 .. MaxMoves }
WindowSamples == { -SCORE_INFINITY, -11, -10, 0, 10, 11, SCORE_INFINITY }

\* uci::parse_move: None for a token that is no legal move of the board
parse_move(board, tok) == IF tok = "zz" THEN None ELSE Some(tok)

\* Board::make_move_new, on the cycle of positions
play(board, mv) == (board + (IF mv = "m1" THEN 1 ELSE 2)) % NumPositions

\* cmd_position, line 262-269: the board and the hashes after each move
RECURSIVE ApplyMoves(_, _, _)
ApplyMoves(board, history, moves) ==
    IF moves = <<>>
    THEN [board |-> board, history |-> history]
    ELSE LET parsed == parse_move(board, Head(moves))
         IN IF parsed # None
            THEN LET next == play(board, Get(parsed))
                 IN ApplyMoves(next, Append(history, next), Tail(moves))
            ELSE ApplyMoves(board, history, Tail(moves))

\* Searcher::set_position: position_history after the call
set_position(board) == <<board>>

\* Searcher::set_position_with_history: position_history after the call
set_position_with_history(board, history) == Append(history, board)

\* an is_repetition that asks for a second earlier occurrence
is_repetition_twice(position_history, hash) ==
    Cardinality({ i \in DOMAIN position_history : position_history[i] = hash }) >= 2

\* Searcher::is_repetition
is_repetition(position_history, hash) ==
    Cardinality({ i \in DOMAIN position_history : position_history[i] = hash }) >= 1

CONTEMPT == 10

\* negamax::search, line 51-60
draw_score(alpha, beta) ==
    IF alpha > CONTEMPT THEN -CONTEMPT
    ELSE IF beta < -CONTEMPT THEN CONTEMPT
    ELSE SCORE_DRAW

\* negamax::search, line 45-68: Some(result) when the node returns here,
\* None when the search of the node goes on
repetition_return(position_history, ply, hash, alpha, beta) ==
    IF ply > 0 /\ is_repetition(position_history, hash)
    THEN Some(SearchResult(None, draw_score(alpha, beta), <<>>))
    ELSE None

UciFrame ==
    UNCHANGED <<ttVars, concVars, packVars, scoreVars, nodeVars, smpVars,
                nnueVars, rootVars, limVars, heurVars, optVars>>

\* UciHandler::cmd_position; reached is the set of hashes of the positions
\* reached while the moves were applied
CmdPosition(fen, moves) ==
    /\ ~uci.searching
    /\ LET start == IF fen # None THEN Get(fen) ELSE StartPos
           game == ApplyMoves(start, <<start>>, moves)
       IN uci' = [uci EXCEPT
                    !.board = game.board,
                    !.position_history =
                        set_position_with_history(game.board, game.history),
                    !.reached = { game.history[i] : i \in DOMAIN game.history },
                    !.moves = Len(game.history) - 1]
    /\ repOut' = None

\* UciHandler::cmd_go, line 291-293: set_position, then search() starts
CmdGo ==
    /\ ~uci.searching
    /\ uci' = [uci EXCEPT !.position_history = set_position(uci.board),
                          !.searching = TRUE]
    /\ repOut' = None

\* negamax::search, line 42-68, at one node of the running search
SearchNode(ply, hash, alpha, beta) ==
    /\ uci.searching
    /\ repOut' = Some([ply |-> ply, hash |-> hash, alpha |-> alpha, beta |-> beta,
                       returned |-> repetition_return(uci.position_history,
                                                      ply, hash, alpha, beta)])
    /\ UNCHANGED uci

\* UciHandler::cmd_go, line 293-317: search() returns, bestmove is sent
GoReturn ==
    /\ uci.searching
    /\ uci' = [uci EXCEPT !.searching = FALSE]
    /\ repOut' = None

UciNext ==
    \/ \E fen \in { None } \cup { Some(p) : p \in Positions }, moves \in MoveLists :
           CmdPosition(fen, moves) /\ UciFrame
    \/ CmdGo /\ UciFrame
    \/ \E ply \in 0 .. MaxRepPly, hash \in Positions,
          alpha \in WindowSamples, beta \in WindowSamples :
           alpha < beta /\ SearchNode(ply, hash, alpha, beta) /\ UciFrame
    \/ GoReturn /\ UciFrame

InitUci ==
    /\ TTNew /\ ConcIdle /\ PackIdle /\ ScoreIdle /\ NodeIdle /\ SmpIdle /\ NnueIdle
    /\ RootIdle /\ LimIdle /\ HeurIdle /\ OptIdle
    /\ uci = [board |-> StartPos, position_history |-> <<>>, reached |-> {},
              moves |-> 0, searching |-> FALSE]
    /\ repOut = None

SpecUci == InitUci /\ [][UciNext]_vars

(***************************************************************************)
(* TimeManager::from_limits (limits.rs 107-175).  All times are            *)
(* milliseconds, far below the 2^64 / 95 at which the products of line     *)
(* 120-122 and 149-156 would leave the range of u64.                       *)
(***************************************************************************)
MoveTimes == { None, Some(0), Some(1), Some(49), Some(51), Some(52), Some(1000) }
Overheads == { 0, 50 }
ClockTimes == { None, Some(0), Some(40), Some(1000), Some(60000) }
Increments == { None, Some(0), Some(1000) }
MovesToGo == { None, Some(0), Some(1), Some(40) }
Colors == { "White", "Black" }

\* u64::saturating_sub
saturating_sub(a, b) == IF a >= b THEN a - b ELSE 0

\* a share of the available time that is rounded up
percent_of_rounded_up(available, percent) == (available * percent + 99) \div 100

\* limits.rs 120, 122: (available * 85) / 100, (available * 95) / 100
percent_of(available, percent) == (available * percent) \div 100

\* the hard limit without the floor at the soft limit
clock_hard_limit_capped(soft, available) == Min(soft * 3, available \div 4)

\* limits.rs 156: (soft * 3).min(available / 4).max(soft)
clock_hard_limit(soft, available) ==
    Max(Min(soft * 3, available \div 4), soft)

\* TimeManager::new and the fallback of line 168-174: the limits are
\* u64::MAX, written None
TimeManager_new == [soft_limit |-> None, hard_limit |-> None, infinite |-> TRUE]

\* whose clock from_limits reads, line 133-136
time_left(l, side) == IF side = "White" THEN l.wtime ELSE l.btime
increment(l, side) == IF side = "White" THEN l.winc ELSE l.binc

from_limits(l, side) ==
    IF l.infinite
    THEN TimeManager_new
    ELSE IF l.movetime # None
    THEN LET available == saturating_sub(Get(l.movetime), l.move_overhead)
             soft == percent_of(available, 85)
             hard == percent_of(available, 95)
         IN [soft_limit |-> Max(soft, 1), hard_limit |-> Max(hard, 1),
             infinite |-> FALSE]
    ELSE IF time_left(l, side) # None
    THEN LET inc == IF increment(l, side) # None
                    THEN Get(increment(l, side)) ELSE 0
             moves_to_go == IF l.movestogo # None THEN Get(l.movestogo) ELSE 30
             available == saturating_sub(Get(time_left(l, side)), l.move_overhead)
             base_time == available \div Max(moves_to_go, 1)
             inc_bonus == (inc * 3) \div 4
             soft == Min(base_time + inc_bonus, available)
             hard == clock_hard_limit(soft, available)
         IN [soft_limit |-> soft, hard_limit |-> hard, infinite |-> FALSE]
    ELSE TimeManager_new

LimFrame ==
    UNCHANGED <<ttVars, concVars, packVars, scoreVars, nodeVars, smpVars,
                nnueVars, rootVars, uciVars, heurVars, optVars>>

\* Searcher::search, line 313: the time manager of the search is built
FromLimits ==
    /\ tm = None
    /\ tm' = Some(from_limits(limits.l, limits.side))
    /\ UNCHANGED limits

LimNext == FromLimits /\ LimFrame

InitLim ==
    /\ TTNew /\ ConcIdle /\ PackIdle /\ ScoreIdle /\ NodeIdle /\ SmpIdle /\ NnueIdle
    /\ RootIdle /\ UciIdle /\ HeurIdle /\ OptIdle
    /\ limits \in
         { [side |-> side,
            l |-> [movetime |-> mt, wtime |-> wt, btime |-> bt,
                   winc |-> wi, binc |-> bi, movestogo |-> mtg,
                   infinite |-> inf, move_overhead |-> o]] :
           side \in Colors, mt \in MoveTimes, wt \in ClockTimes,
           bt \in { None, Some(1000) }, wi \in Increments, bi \in { None, Some(1000) },
           mtg \in MovesToGo, inf \in BOOLEAN, o \in Overheads }
    /\ tm = None

SpecLim == InitLim /\ [][LimNext]_vars

(***************************************************************************)
(* Claims on the sequential table.                                         *)
(***************************************************************************)
\* the value ranges of the 16-bit score field and the 8-bit depth field
InI16(x) == -32768 <= x /\ x <= 32767
InI8(x) == -128 <= x /\ x <= 127

\* probe(h) returns an entry carrying the score, depth, bound and move of call c
Carries(r, c) ==
    /\ IsSome(r)
    /\ Get(r).score = c.score
    /\ Get(r).depth = c.depth
    /\ bound(Get(r)) = c.bound
    /\ entry_best_move(Get(r)) = c.best_move

WrittenThisSearch(i) == IsSome(written[i]) /\ Get(written[i]).search = nsearch

\* C2 as stated: store(h, .., d, b) overwrites the cell at index(h) exactly
\* when the cell is empty, or belongs to another generation than the current
\* one (it was not written since the last new_search), or d >= its depth;
\* otherwise the cell is unchanged; no other cell is touched.
C2_ReplacementRule ==
    [][\A h \in GenHashes, d \in GenDepths, b \in GenBounds :
          Store(h, None, -7, d, b) =>
              LET idx == index(h)
                  cell == from_u64(entries[idx])
              IN /\ entries'[idx] =
                       IF \/ is_empty(cell)
                          \/ ~WrittenThisSearch(idx)
                          \/ d >= cell.depth
                       THEN to_u64(TTEntry_new(h, None, -7, d, b, generation))
                       ELSE entries[idx]
                 /\ \A j \in Indexes \ {idx} : entries'[j] = entries[j]]_vars

\* C4 as stated: for every number of new_search calls, an entry written
\* since the last new_search is recognised as current-generation: a
\* shallower store does not replace it and hashfull counts it.
C4_CurrentEntryRecognised ==
    LET current == {i \in Indexes : WrittenThisSearch(i)
                                      /\ Get(written[i]).bound # BoundNone}
        sample_size == IF TableLen < 1000 THEN TableLen ELSE 1000
    IN /\ \A i \in current : \A d \in GenDepths :
              d < from_u64(entries[i]).depth
                  => ~should_replace(from_u64(entries[i]), generation, d)
       /\ hashfull(entries, generation)
              >= (Cardinality(current \cap (0 .. (sample_size - 1))) * 1000) \div sample_size


\* C3: under every interleaving, an entry returned by probe(h) has its move,
\* score, depth, bound and generation from one single store call (the one
\* that last wrote the cell), whose hash has the upper 16 bits and the index
\* of h and whose bound is not None; otherwise probe returns none.
C3_ProbeReturnsOneStore ==
    (IsSome(cProbe) /\ IsSome(Get(cProbe).result)) =>
        LET h == Get(cProbe).hash
            e == Get(Get(cProbe).result)
        IN /\ IsSome(written[index(h)])
           /\ LET w == Get(written[index(h)])
              IN /\ Carries(Some(e), w)
                 /\ entry_generation(e) = w.search % GenMask
                 /\ w.hash.hi = h.hi
                 /\ index(w.hash) = index(h)
                 /\ w.bound # BoundNone

\* a probe returned an entry while another thread stands between its loads
\* and its write to the same cell, the cell having been written after a
\* new_search
C3_Witness ==
    /\ IsSome(cProbe)
    /\ IsSome(Get(cProbe).result)
    /\ entry_generation(Get(Get(cProbe).result)) = 1
    /\ \E t \in ConcThreads :
          /\ IsSome(cPending[t])
          /\ Get(cPending[t]).pc = "write"
          /\ Get(cPending[t]).replace
          /\ index(Get(cPending[t]).call.hash) = index(Get(cProbe).hash)


\* C5: pack/unpack is the identity: for every key and encoded move in
\* [0, 2^16), score in [-32768, 32767], depth in [-128, 127], bound and
\* generation in [0, 63], from_u64(to_u64(e)) has the key, move, score,
\* depth, bound and generation of e.
C5_PackUnpackIdentity ==
    pkPc = "unpacked" =>
        LET e == Get(pkEntry)
            o == Get(pkOut)
        IN /\ o.key = e.key
           /\ o.best_move = e.best_move
           /\ o.score = e.score
           /\ o.depth = e.depth
           /\ bound(o) = bound(e)
           /\ entry_generation(o) = entry_generation(e)

\* an entry with the smallest score and depth, the largest key, move and
\* generation and an upper bound has been packed and unpacked
C5_Witness ==
    /\ pkPc = "unpacked"
    /\ Get(pkEntry).score = -32768
    /\ Get(pkEntry).depth = -128
    /\ Get(pkEntry).key = 65535
    /\ Get(pkEntry).best_move = 65535
    /\ Get(pkEntry).bound_and_age = BoundUpper + (63 * 4)
    /\ Get(pkRaw) = <<65535, 65535, 32768, 33023>>

\* C6 as stated: for all plies p, q in [0, 256] and every distance k >= 0,
\* from_tt(to_tt(mate_in(p + k), p), q) = mate_in(q + k), likewise for
\* mated_in, and s.to_tt(p).from_tt(p) = s for every score s.
C6_MateSurvivesAnyDistance ==
    scPc = "retrieved" =>
        LET i == Get(scIn)
        IN /\ i.kind = "mate" => Get(scOut) = mate_in(scQ + i.k)
           /\ i.kind = "mated" => Get(scOut) = mated_in(scQ + i.k)
           /\ scP = scQ => Get(scOut) = i.s

\* C6 amended: the same for the distances k with p + k <= 1000, the plies
\* at which mate_in(p + k) and mated_in(p + k) are mate scores; the round
\* trip at one ply (p = q) is the identity on every score.
C6_MateSurvivesWithinWindow ==
    scPc = "retrieved" =>
        LET i == Get(scIn)
        IN /\ (i.kind = "mate" /\ scP + i.k <= 1000)
                  => Get(scOut) = mate_in(scQ + i.k)
           /\ (i.kind = "mated" /\ scP + i.k <= 1000)
                  => Get(scOut) = mated_in(scQ + i.k)
           /\ scP = scQ => Get(scOut) = i.s

\* a mate at the edge of the window (p + k = 1000) was stored at one ply
\* and retrieved at another
C6_Witness ==
    /\ scPc = "retrieved"
    /\ Get(scIn).kind = "mate"
    /\ scP + Get(scIn).k = 1000
    /\ scP = MAX_PLY
    /\ scQ = 1
    /\ Get(scStored) # Get(scIn).s


\* C7 as stated: after each update_state_for_move both perspective
\* accumulators hold exactly the features create_state builds from the
\* board after the move.
C7_IncrementalEqualsScratch ==
    nnPly > 0 => nnState = create_state(nnBoard)

\* C8: between the reset at the start of a search() call and its return the
\* shared stop flag never changes from true back to false.
C8_StopFlagMonotonicInSearch ==
    [][ (mPc # "idle" /\ sharedStop) => sharedStop' ]_vars

\* the main thread has signalled the helpers; one helper has read the flag
\* and returned while another is still inside search_internal
C8_Witness ==
    /\ mPc = "join"
    /\ sharedStop
    /\ \E h \in Helpers : hPc[h] = "stopped"
    /\ \E h \in Helpers : hPc[h] \in {"spawned", "running"}

\* the helpers of the search in progress that have been spawned
Spawned == { h \in Helpers : hPc[h] # "none" }

C9_StopWithin512Nodes ==
    stop => since <= 512

\* the flag was set while the thread waited in a ProbCut sub-search, the
\* thread entered further nodes after that and has left its loop
C9_Witness ==
    /\ stop
    /\ idPc = "done"
    /\ since >= 3

\* C10 as stated: once the elapsed time has reached the hard limit, the
\* iterative-deepening loop ends after at most 512 further node visits.
C10_HardLimitWithin512Nodes ==
    hardUp => since <= 512

---------------------------------------------------------------------------
\* The triple search() hands back, and the triple of a root result.
Returned == Get(call.result)
TakenBy(t) == Get(thr[t].accepted)

\* C12: when search() has returned, its best move, score and PV are those
\* of the last root result that the main thread's search_internal accepted
\* (root call not followed by should_stop(), score strictly inside the
\* window).
C12_ReturnedIsLastAccepted ==
    (call.pc = "returned" /\ thr[MainThread].accepted # None) =>
        Returned = TakenBy(MainThread).result

\* No thread ever accepts the result of a root call that was cut short.
RootInterruptedNeverAccepted ==
    { t \in RootThreads :
        thr[t].accepted # None /\ TakenBy(t).interrupted } = {}

\* C14: when the root position has no legal move, search() returns no best
\* move, with the score mated_in(0) if the side to move is in check and
\* the score DRAW if it is stalemate.
C14_NoLegalMoveResult ==
    (call.pc = "returned" /\ call.kind # "moves") =>
        /\ Returned.best_move = None
        /\ Returned.score = IF call.kind = "checkmate"
                            THEN mated_in(0) ELSE SCORE_DRAW

\* C15: when the root position has a legal move, search() returns a best
\* move, whatever limit ended the search.
C15_BestMoveWheneverLegalMove ==
    (call.pc = "returned" /\ call.kind = "moves") =>
        Returned.best_move # None

RECURSIVE SumVisited(_)
SumVisited(T) ==
    IF T = {} THEN 0
    ELSE LET t == CHOOSE x \in T : TRUE
         IN thr[t].visited + SumVisited(T \ {t})

\* C16: when search() has returned, the searcher's stats.nodes (the copy
\* of the shared total) equals the number of nodes that the main thread
\* and the helpers entered during this search, each counted once.
C16_TotalNodesIsSumOfVisited ==
    call.pc = "returned" =>
        thr[MainThread].nodes = SumVisited(RootThreads)

---------------------------------------------------------------------------
\* A root call whose result is, or derives from, that of a search that was
\* cut short leaves should_stop() true for search_internal (mod.rs 397).
RootCutShortIsSeen == (idPc = "root_ret" /\ retAborted) => ShouldStop

\* C13: a stop in mid-search never corrupts the table: a node whose move
\* loop was left by the should_stop() break stores no entry, and no entry
\* is stored whose score or bound derives from the result of a child that
\* was cut short (the neutral score of an aborted node included).
C13_NoStoreFromCutShortSearch ==
    ttStored # None => (~Get(ttStored).cut /\ ~Get(ttStored).derived)

\* the hard limit has cut a child short; its parent has left its move loop
\* by the break and is about to skip its store
C13_Witness ==
    /\ InNegamax /\ Top.pc = "store" /\ Top.cut
    /\ retAborted /\ ShouldStop
    /\ hardUp /\ ~stop

---------------------------------------------------------------------------
C18_HistoryHoldsGamePositions ==
    (uci.searching /\ uci.moves > 0) =>
        uci.reached \subseteq
            { uci.position_history[i] : i \in DOMAIN uci.position_history }

---------------------------------------------------------------------------
\* the search has a fixed movetime: movetime is given, infinite is not
FixedMovetime == tm # None /\ ~limits.l.infinite /\ limits.l.movetime # None

\* the search runs on the clock of the side to move
OnClock ==
    /\ tm # None /\ ~limits.l.infinite /\ limits.l.movetime = None
    /\ time_left(limits.l, limits.side) # None

\* C19: for a fixed movetime T and move overhead O the time manager is not
\* infinite, available is T - O (0 if T < O), the soft limit is
\* floor(85 * available / 100) and the hard limit floor(95 * available /
\* 100), each raised to 1 ms if it is less; T = 1000 and O = 50 give 807
\* and 902.
C19_FixedMovetimeLimits ==
    FixedMovetime =>
        LET T == Get(limits.l.movetime)
            O == limits.l.move_overhead
            available == IF T < O THEN 0 ELSE T - O
            soft == (85 * available) \div 100
            hard == (95 * available) \div 100
        IN /\ ~Get(tm).infinite
           /\ Get(tm).soft_limit = (IF soft < 1 THEN 1 ELSE soft)
           /\ Get(tm).hard_limit = (IF hard < 1 THEN 1 ELSE hard)
           /\ (T = 1000 /\ O = 50) =>
                  (Get(tm).soft_limit = 807 /\ Get(tm).hard_limit = 902)

\* movetime 1000 with overhead 50
C19_Witness ==
    /\ FixedMovetime
    /\ Get(limits.l.movetime) = 1000 /\ limits.l.move_overhead = 50
    /\ Get(tm).soft_limit = 807 /\ Get(tm).hard_limit = 902

---------------------------------------------------------------------------
(***************************************************************************)
(* The iteration loop of Searcher::search_internal against the time        *)
(* manager (mod.rs 245-268, 351-474; limits.rs 177-221).  The root search  *)
(* of an iteration is one step here: it is either cut short by             *)
(* should_stop or commits a best move.  A u64 is four 16-bit limbs, most   *)
(* significant first, so that u64::MAX and the product of line 263 keep    *)
(* their width.                                                            *)
(***************************************************************************)
MaxIterDepth == 9
StableIterations == 6
ElapsedSamples == { 0, 1, 500, 1000, 100000 }
IterMoves == { "e2e4", "d2d4" }
IterDepthLimits == { 2, MaxIterDepth }

U64_MAX == <<65535, 65535, 65535, 65535>>

\* a value below 2^31 as a u64
u64_from(n) == <<0, 0, n \div 65536, n % 65536>>

\* u64 multiplication by a small factor: the low 64 bits and whether the
\* product left the range
u64_mul(x, k) ==
    LET p4 == x[4] * k
        p3 == x[3] * k + (p4 \div 65536)
        p2 == x[2] * k + (p3 \div 65536)
        p1 == x[1] * k + (p2 \div 65536)
    IN [low |-> <<p1 % 65536, p2 % 65536, p3 % 65536, p4 % 65536>>,
        overflow |-> p1 \div 65536 > 0]

\* u64 division by a small divisor
u64_div(x, d) ==
    LET n1 == x[1]
        n2 == (n1 % d) * 65536 + x[2]
        n3 == (n2 % d) * 65536 + x[3]
        n4 == (n3 % d) * 65536 + x[4]
    IN <<n1 \div d, n2 \div d, n3 \div d, n4 \div d>>

\* a > b on u64
u64_gt(a, b) ==
    \E i \in 1 .. 4 : a[i] > b[i] /\ \A j \in 1 .. (i - 1) : a[j] = b[j]

\* TimeManager::should_stop, limits.rs 190-195
tm_should_stop(t, elapsed) ==
    IF t.infinite THEN FALSE ELSE elapsed >= t.hard_limit

\* TimeManager::can_start_iteration, limits.rs 198-205
can_start_iteration(t, elapsed) ==
    IF t.infinite THEN TRUE ELSE elapsed < t.soft_limit

\* TimeManager::soft_limit_exceeded, limits.rs 208-213
soft_limit_exceeded(t, elapsed) ==
    IF t.infinite THEN FALSE ELSE elapsed >= t.soft_limit

\* TimeManager::hard_limit_exceeded, limits.rs 216-221
hard_limit_exceeded(t, elapsed) ==
    IF t.infinite THEN FALSE ELSE elapsed >= t.hard_limit

\* TimeManager::soft_limit_ms, limits.rs 235-237; the limits of an
\* infinite manager, and only they, are u64::MAX (96-104, 168-174)
soft_limit_ms(t) ==
    IF t.infinite THEN U64_MAX ELSE u64_from(t.soft_limit)

\* mod.rs 259-266: elapsed > (soft * 2) / 5.  The product is a plain u64
\* multiplication: a build with overflow checks panics when it leaves the
\* range, a build without them keeps the low 64 bits.
stable_early_stop(t, elapsed, overflow_checks) ==
    LET product == u64_mul(soft_limit_ms(t), 2)
    IN IF product.overflow /\ overflow_checks
       THEN "panic"
       ELSE IF u64_gt(u64_from(elapsed), u64_div(product.low, 5))
            THEN "stop" ELSE "go"

\* Searcher::can_start_new_iteration, mod.rs 246-268: "go", or why not
can_start_new_iteration_timed(it, t) ==
    IF it.stop THEN "stop"
    ELSE IF ~can_start_iteration(t, it.elapsed) THEN "time"
    ELSE IF it.stable_move_count >= StableIterations
    THEN LET early == stable_early_stop(t, it.elapsed, it.overflow_checks)
         IN IF early = "stop" THEN "stable" ELSE early
    ELSE "go"

IterFrame ==
    UNCHANGED <<ttVars, concVars, packVars, scoreVars, nodeVars, smpVars,
                nnueVars, rootVars, uciVars, fnArgs, fnRet, io, optVars>>

\* Searcher::search, mod.rs 293-313: the state of the last search is reset
\* and the time manager is built; the timer starts with it
ItSearch ==
    /\ iter.pc = "idle"
    /\ tm' = Some(from_limits(limits.l, limits.side))
    /\ iter' = [iter EXCEPT !.pc = "top", !.depth = 1, !.stop = FALSE,
                            !.best_move = None, !.last_best_move = None,
                            !.stable_move_count = 0, !.elapsed = 0]
    /\ UNCHANGED limits

\* the head of the for loop, mod.rs 359-370: the depth limit, then
\* can_start_new_iteration, then the committed mate score
ItForTop ==
    /\ iter.pc = "top"
    /\ LET can == IF iter.depth > iter.max_depth THEN "depth"
                  ELSE can_start_new_iteration_timed(iter, Get(tm))
       IN iter' = IF can # "go"
                  THEN [iter EXCEPT !.pc = "done", !.ended = can]
                  ELSE IF iter.best_score_mate /\ iter.best_move # None
                  THEN [iter EXCEPT !.pc = "done", !.ended = "mate"]
                  ELSE [iter EXCEPT !.pc = "root"]
    /\ UNCHANGED <<limits, tm>>

\* the stability counter and the end of the loop body, mod.rs 436-441
track_stability(it) ==
    IF it.best_move = it.last_best_move
    THEN [it EXCEPT !.stable_move_count = @ + 1,
                    !.depth = @ + 1, !.pc = "top"]
    ELSE [it EXCEPT !.stable_move_count = 0,
                    !.last_best_move = it.best_move,
                    !.depth = @ + 1, !.pc = "top"]

\* the body of the for loop, mod.rs 372-441: the root search is cut short
\* (should_stop, line 384) and nothing is committed, or it commits a best
\* move and a score
ItRootSearch ==
    /\ iter.pc = "root"
    /\ \/ /\ iter.stop \/ hard_limit_exceeded(Get(tm), iter.elapsed)
          /\ iter' = track_stability(iter)
       \/ \E m \in IterMoves, mate \in BOOLEAN :
             iter' = track_stability([iter EXCEPT !.best_move = Some(m),
                                                  !.best_score_mate = mate])
    /\ UNCHANGED <<limits, tm>>

\* the wall clock moves on while the search runs
ItTick ==
    /\ iter.pc \in { "top", "root" }
    /\ \E e \in ElapsedSamples :
          /\ e > iter.elapsed
          /\ iter' = [iter EXCEPT !.elapsed = e]
    /\ UNCHANGED <<limits, tm>>

\* Searcher::stop, SharedState::stop is set while the search runs
ItStop ==
    /\ iter.pc \in { "top", "root" }
    /\ ~iter.stop
    /\ iter' = [iter EXCEPT !.stop = TRUE]
    /\ UNCHANGED <<limits, tm>>

IterNext ==
    \/ ItSearch /\ IterFrame
    \/ ItForTop /\ IterFrame
    \/ ItRootSearch /\ IterFrame
    \/ ItTick /\ IterFrame
    \/ ItStop /\ IterFrame

InitIter ==
    /\ TTNew /\ ConcIdle /\ PackIdle /\ ScoreIdle /\ NodeIdle /\ SmpIdle /\ NnueIdle
    /\ RootIdle /\ UciIdle /\ fnArgs = None /\ fnRet = None /\ io = None /\ OptIdle
    /\ limits \in
         { [side |-> side,
            l |-> [movetime |-> mt, wtime |-> wt, btime |-> None,
                   winc |-> None, binc |-> None, movestogo |-> None,
                   infinite |-> inf, move_overhead |-> 50]] :
           side \in Colors, mt \in { None, Some(1000) },
           wt \in { None, Some(60000) }, inf \in BOOLEAN }
    /\ tm = None
    /\ iter \in
         { [pc |-> "idle", depth |-> 0, max_depth |-> d, stop |-> FALSE,
            best_move |-> None, last_best_move |-> None,
            best_score_mate |-> FALSE, stable_move_count |-> 0,
            elapsed |-> 0, ended |-> "", overflow_checks |-> oc] :
           d \in IterDepthLimits, oc \in BOOLEAN }

SpecIter == InitIter /\ [][IterNext]_vars

---------------------------------------------------------------------------
(***************************************************************************)
(* Static exchange evaluation (see.rs).  Of the board, see() reads the     *)
(* piece on the source and destination squares, the side to move and the   *)
(* pieces of either side that attack the destination square under the      *)
(* current occupancy.  A position is therefore the moving piece (id 0),    *)
(* the victim, and the set of other attackers of the destination: each     *)
(* has an id, a kind, a side and the id of the piece it stands behind on   *)
(* its line to the destination (NoBlocker if none), which is how a slider  *)
(* attacks only once the piece in front has left `occupied`.               *)
(***************************************************************************)
PieceKinds == <<"Pawn", "Knight", "Bishop", "Rook", "Queen", "King">>
SEE_VALUES == <<100, 300, 300, 500, 900, 20000>>
NoBlocker == 99

\* Piece::to_index
to_index(piece) == CHOOSE i \in 1 .. 6 : PieceKinds[i] = piece

\* see_piece_value, see.rs 13-16
see_piece_value(piece) == SEE_VALUES[to_index(piece)]

\* get_piece_attacks, see.rs 33-63: the pieces of the kind and side that
\* are still in `occupied` and attack the target under `occupied`
get_piece_attacks(attackers, piece, side, occupied) ==
    { a \in attackers :
        /\ a.piece = piece /\ a.side = side /\ a.id \in occupied
        /\ a.behind \notin occupied }

\* get_lva, see.rs 19-30: the first kind, from pawn to king, that attacks;
\* to_square takes the attacker on the lowest square (the lowest id)
get_lva(attackers, side, occupied) ==
    LET kinds == { i \in 1 .. 6 :
                     get_piece_attacks(attackers, PieceKinds[i], side, occupied) # {} }
    IN IF kinds = {} THEN None
       ELSE LET k == CHOOSE i \in kinds : \A j \in kinds : i <= j
                found == get_piece_attacks(attackers, PieceKinds[k], side, occupied)
                first == CHOOSE a \in found : \A b \in found : a.id <= b.id
            IN Some(first)

\* the loop of see.rs 102-122: the values captured, in the order of capture
RECURSIVE simulate_exchange(_, _, _, _, _)
simulate_exchange(attackers, side, occupied, last_value, gains) ==
    LET lva == get_lva(attackers, side, occupied)
    IN IF lva = None THEN gains
       ELSE IF Get(lva).piece = "King"
       THEN Append(gains, last_value)
       ELSE simulate_exchange(attackers, Opp(side), occupied \ { Get(lva).id },
                              see_piece_value(Get(lva).piece),
                              Append(gains, last_value))

\* a fold that subtracts what the opponent wins by recapturing
RECURSIVE fold_gains_minimax(_)
fold_gains_minimax(gains) ==
    IF Len(gains) <= 1 THEN gains
    ELSE LET n == Len(gains)
             their_gain == gains[n]
             our_score == gains[n - 1]
         IN fold_gains_minimax(
              [SubSeq(gains, 1, n - 1) EXCEPT ![n - 1] = our_score - Max(0, their_gain)])

\* see.rs 124-129: while gains.len() > 1 { their_gain = pop;
\* *last = max(*last, -their_gain) }
RECURSIVE fold_gains(_)
fold_gains(gains) ==
    IF Len(gains) <= 1 THEN gains
    ELSE LET n == Len(gains)
             their_gain == gains[n]
             our_score == gains[n - 1]
         IN fold_gains(
              [SubSeq(gains, 1, n - 1) EXCEPT ![n - 1] = Max(our_score, -their_gain)])

\* see, see.rs 67-131
see(p) ==
    IF p.victim = None /\ p.attacker # "Pawn"
    THEN 0
    ELSE LET victim_gain == IF p.victim # None
                            THEN see_piece_value(Get(p.victim))
                            ELSE see_piece_value("Pawn")
             gain == IF p.promotion # None
                     THEN victim_gain + see_piece_value(Get(p.promotion))
                                      - see_piece_value("Pawn")
                     ELSE victim_gain
             occupied == { a.id : a \in p.attackers }
             gains == simulate_exchange(p.attackers, Opp(p.side_to_move), occupied,
                                        see_piece_value(p.attacker), <<gain>>)
         IN fold_gains(gains)[1]

\* see_ge, see.rs 135-137
see_ge(p, threshold) == see(p) >= threshold

\* is_good_capture, see.rs 141-143
is_good_capture(p) == see_ge(p, 0)

\* the pieces around the destination square: defenders of the side not to
\* move (a queen behind its rook), further attackers of the side to move (a
\* rook behind the moving piece)
SeePool ==
    { [id |-> 1, piece |-> "Pawn", side |-> "Black", behind |-> NoBlocker],
      [id |-> 2, piece |-> "Knight", side |-> "Black", behind |-> NoBlocker],
      [id |-> 3, piece |-> "Rook", side |-> "Black", behind |-> NoBlocker],
      [id |-> 4, piece |-> "Queen", side |-> "Black", behind |-> 3],
      [id |-> 5, piece |-> "King", side |-> "Black", behind |-> NoBlocker],
      [id |-> 6, piece |-> "Pawn", side |-> "White", behind |-> NoBlocker],
      [id |-> 7, piece |-> "Bishop", side |-> "White", behind |-> NoBlocker],
      [id |-> 8, piece |-> "Rook", side |-> "White", behind |-> 0] }

SeeMovers == { "Pawn", "Knight", "Rook", "Queen" }
SeeVictims == { None, Some("Pawn"), Some("Knight"), Some("Rook"), Some("Queen") }

SeePositions ==
    { [fn |-> "see", side_to_move |-> "White", attacker |-> a, victim |-> v,
       promotion |-> None, attackers |-> others] :
      a \in SeeMovers, v \in SeeVictims, others \in SUBSET SeePool }

HeurFrame ==
    UNCHANGED <<ttVars, concVars, packVars, scoreVars, nodeVars, smpVars,
                nnueVars, rootVars, uciVars, limVars, iter, io, optVars>>

\* the callers of see.rs: see, see_ge with the margin of the quiet-move
\* pruning (negamax.rs 399), is_good_capture (qsearch.rs 131)
SeeCall ==
    /\ fnArgs # None /\ fnArgs.fn = "see" /\ fnRet = None
    /\ fnRet' = Some([see |-> see(fnArgs),
                      see_ge_quiet |-> see_ge(fnArgs, -50),
                      is_good_capture |-> is_good_capture(fnArgs)])
    /\ UNCHANGED fnArgs

SeeNext == SeeCall /\ HeurFrame

InitSee ==
    /\ TTNew /\ ConcIdle /\ PackIdle /\ ScoreIdle /\ NodeIdle /\ SmpIdle /\ NnueIdle
    /\ RootIdle /\ UciIdle /\ LimIdle /\ iter = None /\ io = None /\ OptIdle
    /\ fnArgs \in SeePositions
    /\ fnRet = None

SpecSee == InitSee /\ [][SeeNext]_vars

---------------------------------------------------------------------------
(***************************************************************************)
(* The pruning of one move in the move loop of negamax::search            *)
(* (negamax.rs 158-180, 316-323, 345-418): the static evaluation that the *)
(* node holds when the loop is reached, then history pruning, quiet-SEE   *)
(* pruning and futility pruning, in this order.                           *)
(***************************************************************************)
RFP_MAX_DEPTH == 7
RFP_MARGIN == 75
LATE_EVAL_MAX_DEPTH == 3
HISTORY_PRUNE_DEPTH == 4
HISTORY_PRUNE_FACTOR == 3000
SEE_QUIET_MAX_DEPTH == 4
SEE_QUIET_MARGIN == 50
FUTILITY_FACTOR == 150

PruneDepths == { 1, 3, 4, 5, 7, 8 }
PruneEvals == { 0 }
PruneAlphas == { -100, 700, 2000 }
PruneWindow == 50
PruneHistory == { 0, -16000 }
PrunePool == { a \in SeePool : a.id \in { 1, 3, 5, 7 } }

\* negamax.rs 160-166 and 319-323: static_eval when the move loop starts
static_eval_at_loop(depth, in_check, eval) ==
    IF ~in_check /\ depth <= RFP_MAX_DEPTH THEN Some(eval)
    ELSE IF depth <= LATE_EVAL_MAX_DEPTH /\ ~in_check THEN Some(eval)
    ELSE None

\* negamax.rs 169-179: reverse futility pruning returns before the loop
rfp_returns(a) ==
    /\ ~a.in_check /\ a.depth <= RFP_MAX_DEPTH
    /\ a.eval - RFP_MARGIN * a.depth >= a.beta

\* Move::is_capture, Move::is_promotion and is_quiet, negamax.rs 352-355
is_capture(p) == p.victim # None
is_promotion(p) == p.promotion # None
is_quiet(p) == ~is_capture(p) /\ ~is_promotion(p)

\* negamax.rs 385-392
history_pruned(a) ==
    /\ a.depth < HISTORY_PRUNE_DEPTH /\ is_quiet(a.pos) /\ ~a.in_check
    /\ ~a.gives_check /\ ~a.is_killer /\ a.move_idx > 0
    /\ a.history < (-HISTORY_PRUNE_FACTOR) * a.depth

\* negamax.rs 396-402
quiet_see_pruned(a) ==
    /\ a.depth <= SEE_QUIET_MAX_DEPTH /\ is_quiet(a.pos) /\ ~a.in_check
    /\ ~a.gives_check /\ a.move_idx > 0
    /\ ~see_ge(a.pos, -SEE_QUIET_MARGIN)

\* negamax.rs 406-418
futility_pruned(a) ==
    LET static_eval == static_eval_at_loop(a.depth, a.in_check, a.eval)
    IN /\ static_eval # None
       /\ is_quiet(a.pos) /\ ~a.gives_check /\ a.move_idx > 0
       /\ Get(static_eval) + FUTILITY_FACTOR * a.depth < a.alpha

\* the fate of the move: the first `continue` that applies, or the search
prune_move(a) ==
    IF history_pruned(a) THEN "history"
    ELSE IF quiet_see_pruned(a) THEN "see"
    ELSE IF futility_pruned(a) THEN "futility"
    ELSE "search"

PrunePositions ==
    { [fn |-> "see", side_to_move |-> "White", attacker |-> a, victim |-> v,
       promotion |-> None, attackers |-> others] :
      a \in { "Pawn", "Knight", "Queen" }, v \in { None, Some("Pawn") },
      others \in SUBSET PrunePool }

PruneArgs ==
    { a \in [fn : { "prune" }, depth : PruneDepths, in_check : BOOLEAN,
             gives_check : BOOLEAN, is_killer : BOOLEAN, move_idx : { 0, 1 },
             history : PruneHistory, eval : PruneEvals, alpha : PruneAlphas,
             beta : { x + PruneWindow : x \in PruneAlphas },
             pos : PrunePositions] :
        /\ a.beta = a.alpha + PruneWindow
        /\ ~rfp_returns(a) }

\* one pass of the loop body up to the search of the move
PruneMove ==
    /\ fnArgs # None /\ fnArgs.fn = "prune" /\ fnRet = None
    /\ fnRet' = Some([pruned |-> prune_move(fnArgs),
                      static_eval |-> static_eval_at_loop(fnArgs.depth,
                                          fnArgs.in_check, fnArgs.eval)])
    /\ UNCHANGED fnArgs

PruneNext == PruneMove /\ HeurFrame

InitPrune ==
    /\ TTNew /\ ConcIdle /\ PackIdle /\ ScoreIdle /\ NodeIdle /\ SmpIdle /\ NnueIdle
    /\ RootIdle /\ UciIdle /\ LimIdle /\ iter = None /\ io = None /\ OptIdle
    /\ fnArgs \in PruneArgs
    /\ fnRet = None

SpecPrune == InitPrune /\ [][PruneNext]_vars

---------------------------------------------------------------------------
(***************************************************************************)
(* quiescence with its values (qsearch.rs 43-167).  A position is its      *)
(* static evaluation for the side to move, whether that side is in check,  *)
(* and its captures in the order of order_captures, each with the piece    *)
(* it takes, the exchange on its destination square and the position it    *)
(* leads to.  `polls` is the number of should_stop calls that still        *)
(* answer false.                                                           *)
(***************************************************************************)
PIECE_VALUES == <<100, 320, 330, 500, 900, 0>>
DELTA_MARGIN == 600
DELTA_SAFETY == 100

\* piece_value, qsearch.rs 36-38
piece_value(piece) == PIECE_VALUES[to_index(piece)]

\* best_score starts at minus infinity
initial_best_score_unbounded(stand_pat) == -SCORE_INFINITY

\* qsearch.rs 108: let mut best_score = stand_pat
initial_best_score(stand_pat) == stand_pat

RECURSIVE quiescence(_, _, _, _)
RECURSIVE quiescence_loop(_, _, _, _, _, _)

\* the capture loop, qsearch.rs 111-160, from capture i on
quiescence_loop(node, i, alpha, beta, best_score, polls) ==
    IF i > Len(node.captures) \/ polls = 0
    THEN [score |-> best_score, polls |-> polls]
    ELSE LET m == node.captures[i]
             left == polls - 1
             captured_value == piece_value(m.captured)
         IN IF /\ ~node.in_check /\ ~m.promotion
               /\ node.eval + captured_value + DELTA_SAFETY < alpha
            THEN quiescence_loop(node, i + 1, alpha, beta, best_score, left)
            ELSE IF ~node.in_check /\ ~is_good_capture(m.pos)
            THEN quiescence_loop(node, i + 1, alpha, beta, best_score, left)
            ELSE LET r == quiescence(m.child, -beta, -alpha, left)
                     score == -r.score
                 IN IF score > best_score
                    THEN IF score > alpha
                         THEN IF score >= beta
                              THEN [score |-> score, polls |-> r.polls]
                              ELSE quiescence_loop(node, i + 1, score, beta,
                                                   score, r.polls)
                         ELSE quiescence_loop(node, i + 1, alpha, beta,
                                              score, r.polls)
                    ELSE quiescence_loop(node, i + 1, alpha, beta,
                                         best_score, r.polls)

\* quiescence, qsearch.rs 43-167
quiescence(node, alpha, beta, polls) ==
    LET stand_pat == node.eval
    IN IF stand_pat >= beta
       THEN [score |-> beta, polls |-> polls]
       ELSE IF ~node.in_check /\ stand_pat + DELTA_MARGIN < alpha
       THEN [score |-> alpha, polls |-> polls]
       ELSE LET raised == IF stand_pat > alpha THEN stand_pat ELSE alpha
            IN IF node.captures = <<>>
               THEN [score |-> raised, polls |-> polls]
               ELSE quiescence_loop(node, 1, raised, beta,
                                    initial_best_score(stand_pat), polls)

QsEvals == { -700, 0, 100 }
QsLeafEvals == { -200, 300 }
QsWindows == { <<-50, 50>>, <<-SCORE_INFINITY, SCORE_INFINITY>>,
               <<200, 300>>, <<-1000, -900>> }
QsPolls == { 0, 1, 5 }
MaxQsCaptures == 2

QsLeaf(e) == [eval |-> e, in_check |-> FALSE, captures |-> <<>>]

\* the exchange that a capture of the piece starts: an undefended victim,
\* or one that a pawn defends
QsExchange(captured, defended) ==
    [fn |-> "see", side_to_move |-> "White", attacker |-> "Queen",
     victim |-> Some(captured), promotion |-> None,
     attackers |-> IF defended THEN { a \in SeePool : a.id = 1 } ELSE {}]

QsCapture(captured, defended, child) ==
    [captured |-> captured, promotion |-> FALSE,
     pos |-> QsExchange(captured, defended), child |-> child]

QsChildren ==
    { QsLeaf(e) : e \in QsEvals }
      \cup { [eval |-> e, in_check |-> FALSE,
              captures |-> <<QsCapture("Pawn", FALSE, QsLeaf(g))>>] :
             e \in QsEvals, g \in QsLeafEvals }

QsCaptures ==
    { QsCapture(c, d, child) :
        c \in { "Pawn", "Queen" }, d \in { FALSE }, child \in QsChildren }
      \cup { QsCapture("Pawn", TRUE, QsLeaf(0)) }

QsCaptureLists ==
    UNION { [1 .. n -> QsCaptures] : n \in 0 .. MaxQsCaptures }

QsArgs ==
    { [fn |-> "quiescence",
       node |-> [eval |-> e, in_check |-> ic, captures |-> cs],
       alpha |-> w[1], beta |-> w[2], polls |-> p] :
      e \in QsEvals, ic \in BOOLEAN, cs \in QsCaptureLists,
      w \in QsWindows, p \in QsPolls }

\* the call of quiescence from negamax (negamax.rs 296-298) or from itself
QsCall ==
    /\ fnArgs # None /\ fnArgs.fn = "quiescence" /\ fnRet = None
    /\ fnRet' = Some(quiescence(fnArgs.node, fnArgs.alpha, fnArgs.beta,
                                fnArgs.polls))
    /\ UNCHANGED fnArgs

QsNext == QsCall /\ HeurFrame

InitQs ==
    /\ TTNew /\ ConcIdle /\ PackIdle /\ ScoreIdle /\ NodeIdle /\ SmpIdle /\ NnueIdle
    /\ RootIdle /\ UciIdle /\ LimIdle /\ iter = None /\ io = None /\ OptIdle
    /\ fnArgs \in QsArgs
    /\ fnRet = None

SpecQs == InitQs /\ [][QsNext]_vars

---------------------------------------------------------------------------
(***************************************************************************)
(* UciHandler::run (handler.rs 113-132): one thread reads a line from      *)
(* stdin and handles it before it reads the next one.  cmd_go (275-318)    *)
(* calls Searcher::search and returns when the search has returned; the    *)
(* model splits it at that call, so that lines can arrive on stdin while   *)
(* the search runs.                                                        *)
(***************************************************************************)
MaxCommands == 4
UciLines == { "go infinite", "go movetime", "stop", "isready" }

RunFrame ==
    UNCHANGED <<ttVars, concVars, packVars, scoreVars, nodeVars, smpVars,
                nnueVars, rootVars, uciVars, limVars, iter, fnArgs, fnRet, optVars>>

\* the GUI writes a line to the engine's stdin
RunArrive ==
    /\ io.arrived < MaxCommands
    /\ \E line \in UciLines :
          io' = [io EXCEPT !.stdin = Append(@, line),
                           !.arrived = @ + 1,
                           !.stop_arrived =
                               @ \/ (io.pc = "searching" /\ line = "stop")]

\* run reads "go": cmd_go up to the call of search, whose first statement
\* clears the stop flag (mod.rs 295); a book move answers a go that is not
\* infinite without a search (handler.rs 277-285)
RunGo ==
    /\ io.pc = "read" /\ io.stdin # <<>>
    /\ Head(io.stdin) \in { "go infinite", "go movetime" }
    /\ \/ /\ Head(io.stdin) = "go movetime"
          /\ io' = [io EXCEPT !.stdin = Tail(@),
                              !.out = Append(@, "bestmove")]
       \/ io' = [io EXCEPT !.stdin = Tail(@), !.pc = "searching",
                           !.go = Head(io.stdin), !.stop = FALSE,
                           !.stop_arrived = FALSE]

\* Searcher::search returns, by the stop flag or for a reason of its own
\* (the depth limit, a mate score, a time limit), and cmd_go prints the
\* info line and bestmove (handler.rs 293-317); `done` keeps what the flag
\* was when the search returned
RunSearchReturn ==
    /\ io.pc = "searching"
    /\ io' = [io EXCEPT !.pc = "read",
                        !.out = Append(@, "bestmove"),
                        !.done = Some([go |-> io.go,
                                       stop_arrived |-> io.stop_arrived,
                                       stop_flag |-> io.stop])]

\* run reads "stop": cmd_stop, Searcher::stop (mod.rs 223-225)
RunStop ==
    /\ io.pc = "read" /\ io.stdin # <<>> /\ Head(io.stdin) = "stop"
    /\ io' = [io EXCEPT !.stdin = Tail(@), !.stop = TRUE]

\* run reads "isready": cmd_isready answers readyok
RunIsReady ==
    /\ io.pc = "read" /\ io.stdin # <<>> /\ Head(io.stdin) = "isready"
    /\ io' = [io EXCEPT !.stdin = Tail(@), !.out = Append(@, "readyok")]

RunNext ==
    \/ RunArrive /\ RunFrame
    \/ RunGo /\ RunFrame
    \/ RunSearchReturn /\ RunFrame
    \/ RunStop /\ RunFrame
    \/ RunIsReady /\ RunFrame

InitRun ==
    /\ TTNew /\ ConcIdle /\ PackIdle /\ ScoreIdle /\ NodeIdle /\ SmpIdle /\ NnueIdle
    /\ RootIdle /\ UciIdle /\ LimIdle /\ iter = None /\ fnArgs = None /\ fnRet = None /\ OptIdle
    /\ io = [stdin |-> <<>>, arrived |-> 0, pc |-> "read", stop |-> FALSE,
             go |-> None, stop_arrived |-> FALSE,
             out |-> <<>>, done |-> None]

SpecRun == InitRun /\ [][RunNext]_vars

---------------------------------------------------------------------------
(***************************************************************************)
(* The transposition-table probe of a negamax node (negamax.rs 98-144).    *)
(* The entry is the one that a store with the given arguments left in the  *)
(* table cell; the node probes with its own hash.                          *)
(***************************************************************************)
ProbeHashes == { [hi |-> 1, lo |-> 0], [hi |-> 65535, lo |-> 0] }
\* the hash of the position whose search stored the entry
ProbeStoredHash == [hi |-> 1, lo |-> 0]
ProbeMoves == { None, Some([from |-> 12, to |-> 28, promo |-> NoPromo]) }
ProbeScores == { -100, 0, 60, 100, SCORE_MATE - 5 }
ProbeEntryDepths == { 2, 5 }
ProbeNodeDepths == { 1, 3, 5, 6 }
ProbePlies == { 0, 3 }
ProbeWindows == { <<-50, 50>>, <<0, 1>>, <<60, 100>>,
                  <<-SCORE_INFINITY, SCORE_INFINITY>> }

\* the entry is used at any depth
tt_depth_any(entry_depth, depth) == TRUE

\* negamax.rs 106: if entry.depth() >= depth
tt_depth_sufficient(entry_depth, depth) == entry_depth >= depth

\* negamax.rs 102-144: the early return, if any, and alpha and tt_move as
\* the node goes on with them
tt_probe_node(entry, depth, ply, alpha, beta) ==
    IF entry = None
    THEN [returned |-> None, alpha |-> alpha, beta |-> beta, tt_move |-> None]
    ELSE LET e == Get(entry)
             tt_move == entry_best_move(e)
             tt_score == from_tt(e.score, ply)
             hit == Some(SearchResult(tt_move, tt_score,
                                      IF tt_move # None THEN <<Get(tt_move)>>
                                      ELSE <<>>))
             on == [returned |-> None, alpha |-> alpha, beta |-> beta,
                    tt_move |-> tt_move]
         IN IF ~tt_depth_sufficient(e.depth, depth) THEN on
            ELSE IF bound(e) = BoundExact THEN [on EXCEPT !.returned = hit]
            ELSE IF bound(e) = BoundLower
            THEN IF tt_score >= beta THEN [on EXCEPT !.returned = hit]
                 ELSE IF tt_score > alpha THEN [on EXCEPT !.alpha = tt_score]
                 ELSE on
            ELSE IF bound(e) = BoundUpper
            THEN IF tt_score <= alpha THEN [on EXCEPT !.returned = hit] ELSE on
            ELSE on

ProbeArgs ==
    { [fn |-> "tt_probe", hash |-> h,
       entry |-> probe_raw(to_u64(TTEntry_new(ProbeStoredHash, m, s, d, b, 0)), h),
       depth |-> nd, ply |-> p, alpha |-> w[1], beta |-> w[2]] :
      h \in ProbeHashes, m \in ProbeMoves, s \in ProbeScores,
      d \in ProbeEntryDepths, b \in BoundType, nd \in ProbeNodeDepths,
      p \in ProbePlies, w \in ProbeWindows }

\* the node's probe
ProbeNode ==
    /\ fnArgs # None /\ fnArgs.fn = "tt_probe" /\ fnRet = None
    /\ fnRet' = Some(tt_probe_node(fnArgs.entry, fnArgs.depth, fnArgs.ply,
                                   fnArgs.alpha, fnArgs.beta))
    /\ UNCHANGED fnArgs

ProbeNext == ProbeNode /\ HeurFrame

InitProbe ==
    /\ TTNew /\ ConcIdle /\ PackIdle /\ ScoreIdle /\ NodeIdle /\ SmpIdle /\ NnueIdle
    /\ RootIdle /\ UciIdle /\ LimIdle /\ iter = None /\ io = None /\ OptIdle
    /\ fnArgs \in ProbeArgs
    /\ fnRet = None

SpecProbe == InitProbe /\ [][ProbeNext]_vars

---------------------------------------------------------------------------
(***************************************************************************)
(* Move ordering (ordering.rs).  Of a move, score_move reads its           *)
(* promotion piece, the pieces on its source and destination squares, the  *)
(* exchange on the destination square and its history score; the history   *)
(* table (history.rs) keeps its scores within +-16000.                     *)
(***************************************************************************)
TT_MOVE_BONUS == 1000000
PROMOTION_BONUS == 100000
GOOD_CAPTURE_BONUS == 60000
KILLER_0_BONUS == 40000
KILLER_1_BONUS == 35000
COUNTER_MOVE_BONUS == 30000
BAD_CAPTURE_PENALTY == -10000
MaxOrderMoves == 3

\* types::piece_value, types/mod.rs 51-70
PieceValues == <<100, 320, 330, 500, 900, 20000>>
types_piece_value(piece) == PieceValues[to_index(piece)]

\* mvv_lva_score, ordering.rs 22-33
mvv_lva_score(m) ==
    IF m.victim # None
    THEN types_piece_value(Get(m.victim)) * 10 - types_piece_value(m.attacker)
    ELSE 0

\* the exchange that the move starts, as see() reads it from the board
OrderExchange(m) ==
    [fn |-> "see", side_to_move |-> "White", attacker |-> m.attacker,
     victim |-> m.victim, promotion |-> m.promotion,
     attackers |-> IF m.defended THEN { a \in SeePool : a.id = 1 } ELSE {}]

\* score_move, ordering.rs 35-84
score_move(m, tt_move, killers, counter_move) ==
    IF tt_move = Some(m) THEN TT_MOVE_BONUS
    ELSE LET promo == IF m.promotion # None
                      THEN types_piece_value(Get(m.promotion)) + PROMOTION_BONUS
                      ELSE 0
         IN IF m.victim # None
            THEN IF see(OrderExchange(m)) >= 0
                 THEN promo + GOOD_CAPTURE_BONUS + mvv_lva_score(m)
                 ELSE promo + BAD_CAPTURE_PENALTY + mvv_lva_score(m)
            ELSE IF killers[1] = Some(m) THEN promo + KILLER_0_BONUS
            ELSE IF killers[2] = Some(m) THEN promo + KILLER_1_BONUS
            ELSE IF counter_move = Some(m) THEN promo + COUNTER_MOVE_BONUS
            ELSE promo + m.history

\* a scan that keeps the smallest score
scan_takes_lower(score, best_score) == score < best_score

\* ordering.rs 130, 226: if scores[j] > best_score
scan_takes(score, best_score) == score > best_score

\* the scan of ordering.rs 126-133 and 222-231: the index of the best
\* score in scores[from ..], the first one among equals
RECURSIVE find_best(_, _, _, _)
find_best(scores, j, best_idx, count) ==
    IF j > count THEN best_idx
    ELSE IF scan_takes(scores[j], scores[best_idx])
    THEN find_best(scores, j + 1, j, count)
    ELSE find_best(scores, j + 1, best_idx, count)

\* slice::swap
swap(seq, i, j) == [seq EXCEPT ![i] = seq[j], ![j] = seq[i]]

\* the selection sort of order_moves_full, ordering.rs 219-237, from i on
RECURSIVE selection_sort(_, _, _)
selection_sort(moves, scores, i) ==
    IF i > Len(moves) THEN moves
    ELSE LET best_idx == find_best(scores, i + 1, i, Len(moves))
         IN selection_sort(swap(moves, i, best_idx), swap(scores, i, best_idx),
                           i + 1)

\* order_moves_full, ordering.rs 204-238: the list after the call
order_moves_full(a) ==
    selection_sort(a.moves,
                   [i \in DOMAIN a.moves |->
                      score_move(a.moves[i], a.tt_move, a.killers, a.counter_move)],
                   1)

\* MovePicker::new, ordering.rs 96-116; `current` counts from 1 here
MovePicker_new(a) ==
    [moves |-> a.moves,
     scores |-> [i \in DOMAIN a.moves |->
                   score_move(a.moves[i], a.tt_move, a.killers, a.counter_move)],
     count |-> Len(a.moves), current |-> 1, returned |-> <<>>]

\* MovePicker::next, ordering.rs 119-144: the picker after the call;
\* `returned` lists what the calls handed out so far
MovePicker_next(p) ==
    IF p.current > p.count
    THEN [p EXCEPT !.returned = Append(@, None)]
    ELSE LET best_idx == find_best(p.scores, p.current + 1, p.current, p.count)
             moves == swap(p.moves, p.current, best_idx)
         IN [p EXCEPT !.moves = moves,
                      !.scores = swap(p.scores, p.current, best_idx),
                      !.current = @ + 1,
                      !.returned = Append(@, Some(moves[p.current]))]

OrderMove(id, attacker, victim, promotion, defended, history) ==
    [id |-> id, attacker |-> attacker, victim |-> victim,
     promotion |-> promotion, defended |-> defended, history |-> history]

\* quiet moves with equal and with negative history, a capture of a
\* defended pawn by the queen, a capture of a queen by a pawn, a promotion
OrderPool ==
    { OrderMove(1, "Knight", None, None, FALSE, 120),
      OrderMove(2, "Bishop", None, None, FALSE, -50),
      OrderMove(3, "Rook", None, None, FALSE, 120),
      OrderMove(4, "Queen", Some("Pawn"), None, TRUE, 0),
      OrderMove(5, "Pawn", Some("Queen"), None, FALSE, 0),
      OrderMove(6, "Pawn", None, Some("Queen"), FALSE, 0) }

OrderLists ==
    { l \in UNION { [1 .. n -> OrderPool] : n \in 0 .. MaxOrderMoves } :
        \A i, j \in DOMAIN l : i # j => l[i] # l[j] }

OrderArgs ==
    { [fn |-> f, moves |-> l, tt_move |-> tt, killers |-> <<k0, k1>>,
       counter_move |-> cm] :
      f \in { "order_moves_full", "MovePicker" }, l \in OrderLists,
      tt \in { None } \cup { Some(m) : m \in OrderPool },
      k0 \in { None, Some(OrderMove(1, "Knight", None, None, FALSE, 120)) },
      k1 \in { None, Some(OrderMove(2, "Bishop", None, None, FALSE, -50)) },
      cm \in { None, Some(OrderMove(3, "Rook", None, None, FALSE, 120)) } }

\* negamax::search orders the moves of the node, negamax.rs 312
OrderMovesFull ==
    /\ fnArgs # None /\ fnArgs.fn = "order_moves_full" /\ fnRet = None
    /\ fnRet' = Some(order_moves_full(fnArgs))
    /\ UNCHANGED fnArgs

\* a picker is made for the moves of a node
PickerNew ==
    /\ fnArgs # None /\ fnArgs.fn = "MovePicker" /\ fnRet = None
    /\ fnRet' = Some(MovePicker_new(fnArgs))
    /\ UNCHANGED fnArgs

\* the node asks for its next move; once more after the last one
PickerNext ==
    /\ fnArgs # None /\ fnArgs.fn = "MovePicker" /\ fnRet # None
    /\ Len(Get(fnRet).returned) <= Get(fnRet).count
    /\ fnRet' = Some(MovePicker_next(Get(fnRet)))
    /\ UNCHANGED fnArgs

OrderNext ==
    \/ OrderMovesFull /\ HeurFrame
    \/ PickerNew /\ HeurFrame
    \/ PickerNext /\ HeurFrame

InitOrder ==
    /\ TTNew /\ ConcIdle /\ PackIdle /\ ScoreIdle /\ NodeIdle /\ SmpIdle /\ NnueIdle
    /\ RootIdle /\ UciIdle /\ LimIdle /\ iter = None /\ io = None /\ OptIdle
    /\ fnArgs \in OrderArgs
    /\ fnRet = None

SpecOrder == InitOrder /\ [][OrderNext]_vars

---------------------------------------------------------------------------
(***************************************************************************)
(* A search with a node limit (go nodes N).  parse_go stores the number    *)
(* in SearchParams::nodes (parser.rs 197-202) and from_params copies it    *)
(* into SearchLimits::nodes (limits.rs 62); from_limits (107-175) and      *)
(* should_stop (mod.rs 228-243) are the readers of the limits, and the     *)
(* limits parameter of search_internal is unused (mod.rs 352).  The        *)
(* iteration loop is that of SpecIter; the root search is taken node by    *)
(* node, each node counting itself (inc_nodes, negamax.rs 37) and then     *)
(* asking should_stop (negamax.rs 147).                                    *)
(***************************************************************************)
MaxLimitNodes == 6
NodeLimits == { Some(1), Some(3) }

\* one node of the root search of this iteration: counted, then should_stop;
\* the root call returns cut short, or goes on, or commits a best move
NlNode ==
    /\ iter.pc = "root"
    /\ iter.nodes < MaxLimitNodes
    /\ LET it == [iter EXCEPT !.nodes = @ + 1]
       IN IF should_stop(it.stop, it.nodes,
                         hard_limit_exceeded(Get(tm), it.elapsed))
          THEN iter' = track_stability(it)
          ELSE \/ iter' = it
               \/ \E m \in IterMoves :
                     iter' = track_stability([it EXCEPT !.best_move = Some(m)])
    /\ UNCHANGED <<limits, tm>>

NodeLimitNext ==
    \/ ItSearch /\ IterFrame
    \/ ItForTop /\ IterFrame
    \/ NlNode /\ IterFrame
    \/ ItTick /\ IterFrame
    \/ ItStop /\ IterFrame

InitNodeLimit ==
    /\ TTNew /\ ConcIdle /\ PackIdle /\ ScoreIdle /\ NodeIdle /\ SmpIdle /\ NnueIdle
    /\ RootIdle /\ UciIdle /\ fnArgs = None /\ fnRet = None /\ io = None /\ OptIdle
    /\ limits \in
         { [side |-> side,
            l |-> [nodes |-> n, movetime |-> mt, wtime |-> None, btime |-> None,
                   winc |-> None, binc |-> None, movestogo |-> None,
                   infinite |-> FALSE, move_overhead |-> 50]] :
           side \in Colors, n \in NodeLimits, mt \in { None, Some(1000) } }
    /\ tm = None
    /\ iter \in
         { [pc |-> "idle", depth |-> 0, max_depth |-> d, stop |-> FALSE,
            best_move |-> None, last_best_move |-> None,
            best_score_mate |-> FALSE, stable_move_count |-> 0,
            elapsed |-> 0, ended |-> "", overflow_checks |-> oc, nodes |-> 0] :
           d \in IterDepthLimits, oc \in BOOLEAN }

SpecNodeLimit == InitNodeLimit /\ [][NodeLimitNext]_vars

---------------------------------------------------------------------------
(***************************************************************************)
(* The aspiration loop of one iteration (mod.rs 371-424) over the whole    *)
(* range of scores a root call can hand back.  A root call that ran to its *)
(* end returns the negated score of a child, a table score, a mate or a    *)
(* draw score: every one of them lies within [-SCORE_MATE, SCORE_MATE]     *)
(* (mate distance pruning, negamax.rs 70-96, clips the bounds that null    *)
(* move, ProbCut and quiescence return; the first move is never pruned,    *)
(* 385-418).  Score::neg_infinity comes back only from a move loop that    *)
(* should_stop() left before its first score (504-506).  delta is doubled  *)
(* after every root search that is not accepted (line 418), so the k-th    *)
(* root search of an iteration runs with delta = 25 * 2^(k-1).             *)
(***************************************************************************)
AspScores == { (-SCORE_MATE) + 1, -100, -40, 40, 100, SCORE_MATE - 1 }

\* what a root call that ran to its end can hand back
AspRootResults(kind, alpha, beta) ==
    IF kind = "moves"
    THEN { SearchResult(Some(m), s, <<m>>) : m \in RootMoves, s \in AspScores }
    ELSE { root_no_moves(kind = "checkmate", alpha, beta) }

\* search_internal, line 386-395: the root call of negamax::search
AspRootSearch(t) ==
    /\ thr[t].pc = "asp"
    /\ \E n \in RootNodeCounts, interrupted \in BOOLEAN :
          LET s == thr[t]
              stopped == should_stop(shared.stop, s.nodes + n, call.clock = "hard")
          IN /\ interrupted => stopped
             /\ \E r \in IF interrupted
                         THEN InterruptedResults(call.kind)
                         ELSE AspRootResults(call.kind, s.alpha, s.beta) :
                   thr' = [thr EXCEPT ![t] =
                              [s EXCEPT !.pc = "root_ret",
                                        !.nodes = s.nodes + n,
                                        !.visited = s.visited + n,
                                        !.result = Some(r),
                                        !.interrupted = interrupted]]
    /\ UNCHANGED <<shared, call>>

AspNext ==
    \/ RtSearch /\ RootFrame
    \/ \E t \in RootThreads : RtForTop(t) /\ RootFrame
    \/ \E t \in RootThreads : AspRootSearch(t) /\ RootFrame
    \/ \E t \in RootThreads : RtRootRet(t) /\ RootFrame
    \/ \E t \in RootThreads : RtIterEnd(t) /\ RootFrame
    \/ RtSignal /\ RootFrame
    \/ RtJoin /\ RootFrame
    \/ RtTick /\ RootFrame

\* one search of the main thread alone
InitAsp ==
    /\ TTNew /\ ConcIdle /\ PackIdle /\ ScoreIdle /\ NodeIdle /\ SmpIdle /\ NnueIdle
    /\ UciIdle /\ LimIdle /\ HeurIdle /\ OptIdle
    /\ thr = [t \in RootThreads |-> NoThread]
    /\ shared \in { [stop |-> b, total_nodes |-> 0] : b \in BOOLEAN }
    /\ call \in { [pc |-> "idle", kind |-> k, num_threads |-> 1,
                   clock |-> "early", result |-> None] : k \in RootKinds }

SpecAsp == InitAsp /\ [][AspNext]_vars

---------------------------------------------------------------------------
(***************************************************************************)
(* The depths the search hands to store.  Without a depth limit the        *)
(* iteration loop runs for depth in 1..=Depth::MAX (mod.rs 315, 359), the  *)
(* root node stores with the iteration depth (negamax.rs 552-558) and a    *)
(* child gets depth - 1 plus the check extension of 1 (369, 382), so 128   *)
(* is the largest depth stored.                                            *)
(***************************************************************************)
MAX_DEPTH == 128

---------------------------------------------------------------------------
(***************************************************************************)
(* The root call of the first iteration on a table that earlier searches   *)
(* have written (the table outlives a search: new_search only moves the    *)
(* generation on, and probe does not read the generation).  probe accepts  *)
(* a word whose 16-bit key fragment equals that of the hash (tt.rs         *)
(* 265-278), negamax::search returns the entry's decoded move from its     *)
(* cutoffs at any ply (negamax.rs 101-144) and search_internal takes the   *)
(* move of an accepted result (mod.rs 407-415).                            *)
(***************************************************************************)
\* the root position, a position with the same index and key fragment, and
\* a position with the same index and another key fragment; each with its
\* legal moves
LegalRoot ==
    [hash |-> [hi |-> 1, lo |-> 0],
     legal |-> { [from |-> 12, to |-> 28, promo |-> NoPromo],
                 [from |-> 6, to |-> 21, promo |-> NoPromo] }]
LegalOthers ==
    { [hash |-> [hi |-> 1, lo |-> TableLen],
       legal |-> { [from |-> 52, to |-> 36, promo |-> NoPromo] }],
      [hash |-> [hi |-> 2, lo |-> 0],
       legal |-> { [from |-> 48, to |-> 57, promo |-> "Q"] }] }
LegalScores == { -40, 40 }
LegalDepths == { 0, 1, 2 }
LegalBounds == { BoundExact, BoundLower, BoundUpper }

LegalFrame ==
    UNCHANGED <<concVars, packVars, scoreVars, nodeVars, smpVars, nnueVars,
                rootVars, uciVars, limVars, iter, io, optVars>>

\* negamax.rs 552-558: a node of some search stores its best move, a legal
\* move of its own position
LgStore ==
    /\ fnRet = None
    /\ \E p \in LegalOthers \cup { LegalRoot }, mv \in BOOLEAN,
          s \in LegalScores, d \in LegalDepths, b \in LegalBounds :
          \E m \in (IF mv THEN { Some(x) : x \in p.legal } ELSE { None }) :
             Store(p.hash, m, s, d, b)
    /\ UNCHANGED <<fnArgs, fnRet>>

\* Searcher::search, line 304: tt.new_search()
LgNewSearch ==
    /\ fnRet = None
    /\ NewSearch(MaxSearches)
    /\ UNCHANGED <<fnArgs, fnRet>>

\* the root call of negamax::search: the early return of the table probe,
\* or the search of the root's own moves
root_call(tbl, root, depth, alpha, beta) ==
    LET p == tt_probe_node(probe(tbl, root.hash), depth, 0, alpha, beta)
    IN IF p.returned # None
       THEN { Get(p.returned) }
       ELSE { SearchResult(Some(m), s, <<m>>) : m \in root.legal, s \in LegalScores }

\* mod.rs 407-415: the move of a result whose score is inside the window
accept_result(best_move, result, alpha, beta) ==
    IF result.score <= alpha \/ result.score >= beta THEN best_move
    ELSE IF result.best_move # None THEN result.best_move
    ELSE best_move

\* Searcher::search with depth 1 (go depth 1): one iteration with the open
\* window, then the result of mod.rs 468-473
LgSearch ==
    /\ fnRet = None
    /\ \E r \in root_call(entries, fnArgs.root, fnArgs.depth,
                          neg_infinity, SCORE_INFINITY) :
          fnRet' = Some([best_move |-> accept_result(None, r, neg_infinity,
                                                     SCORE_INFINITY),
                         result |-> r])
    /\ UNCHANGED <<fnArgs, ttVars>>

LegalNext ==
    \/ LgStore /\ LegalFrame
    \/ LgNewSearch /\ LegalFrame
    \/ LgSearch /\ LegalFrame

InitLegal ==
    /\ TTNew /\ ConcIdle /\ PackIdle /\ ScoreIdle /\ NodeIdle /\ SmpIdle /\ NnueIdle
    /\ RootIdle /\ UciIdle /\ LimIdle /\ iter = None /\ io = None /\ OptIdle
    /\ fnArgs = [fn |-> "root", root |-> LegalRoot, depth |-> 1]
    /\ fnRet = None

SpecLegal == InitLegal /\ [][LegalNext]_vars

---------------------------------------------------------------------------
(***************************************************************************)
(* The options of the UCI handler (handler.rs 39-108, 191-248, 275-293)    *)
(* and the configuration of its Searcher (mod.rs 146-176).  Threads lives  *)
(* in Searcher::num_threads and the NNUE model in Searcher::nnue; the move *)
(* overhead and the book settings are fields of the handler itself.        *)
(***************************************************************************)
MAX_MOVE_OVERHEAD == 5000
DEFAULT_HANDLER_OVERHEAD == 10
OptThreadValues == { 0, 1, 4, 100 }
OptOverheadValues == { 0, 6000 }
OptBookPaths == { "Human.bin", "missing.bin" }
OptBookFiles == { "Human.bin" }

\* Searcher::new, mod.rs 146-164: the fields of this model
Searcher_new == [num_threads |-> 1, nnue |-> None]

\* PolyglotBook::load as the handler uses it: Some book or None
load_book(path) == IF path \in OptBookFiles THEN Some(path) ELSE None

\* UciHandler::new, handler.rs 39-108, with or without a network file
UciHandler_new(network) ==
    [searcher |-> [Searcher_new EXCEPT !.nnue = network],
     book |-> load_book("Human.bin"), use_own_book |-> TRUE,
     book_path |-> "Human.bin", move_overhead |-> DEFAULT_HANDLER_OVERHEAD,
     threads_option |-> 1, last_go |-> None]

OptFrame ==
    UNCHANGED <<ttVars, concVars, packVars, scoreVars, nodeVars, smpVars,
                nnueVars, rootVars, uciVars, limVars, heurVars>>

\* cmd_setoption, handler.rs 191-199: Threads; threads_option records the
\* value the option was given, within the limits of the option
OptSetThreads ==
    \E n \in OptThreadValues :
       handler' = [handler EXCEPT
                      !.searcher.num_threads = set_threads(n),
                      !.threads_option = Min(Max(n, 1), MaxThreadCount),
                      !.last_go = None]

\* cmd_setoption, handler.rs 200-206: MoveOverhead
OptSetMoveOverhead ==
    \E ms \in OptOverheadValues :
       handler' = [handler EXCEPT !.move_overhead = Min(ms, MAX_MOVE_OVERHEAD),
                                  !.last_go = None]

\* cmd_setoption, handler.rs 207-214: OwnBook
OptSetOwnBook ==
    \E b \in BOOLEAN :
       handler' = [handler EXCEPT !.use_own_book = b, !.last_go = None]

\* cmd_setoption, handler.rs 215-230: BookPath
OptSetBookPath ==
    \E path \in OptBookPaths :
       handler' = [handler EXCEPT !.book_path = path, !.book = load_book(path),
                                  !.last_go = None]

\* cmd_ucinewgame, handler.rs 239-248
cmd_ucinewgame(h) ==
    LET nnue_model == h.searcher.nnue
    IN [h EXCEPT !.searcher = [Searcher_new EXCEPT !.nnue = nnue_model]]

OptNewGame ==
    handler' = [cmd_ucinewgame(handler) EXCEPT !.last_go = None]

\* cmd_go, handler.rs 275-293: what the search of this go runs with
OptGo ==
    handler' = [handler EXCEPT !.last_go =
                   Some([threads |-> handler.searcher.num_threads,
                         nnue |-> handler.searcher.nnue,
                         move_overhead |-> handler.move_overhead,
                         book |-> IF handler.use_own_book THEN handler.book
                                  ELSE None])]

OptNext ==
    \/ OptSetThreads /\ OptFrame
    \/ OptSetMoveOverhead /\ OptFrame
    \/ OptSetOwnBook /\ OptFrame
    \/ OptSetBookPath /\ OptFrame
    \/ OptNewGame /\ OptFrame
    \/ OptGo /\ OptFrame

InitOpt ==
    /\ TTNew /\ ConcIdle /\ PackIdle /\ ScoreIdle /\ NodeIdle /\ SmpIdle /\ NnueIdle
    /\ RootIdle /\ UciIdle /\ LimIdle /\ HeurIdle
    /\ handler \in { UciHandler_new(n) : n \in { None, Some("network.nnue") } }

SpecOpt == InitOpt /\ [][OptNext]_vars

---------------------------------------------------------------------------
(***************************************************************************)
(* The tapered hand-crafted evaluation (hce.rs 155-181, 285-410).  Of the  *)
(* board, game_phase reads the number of knights, bishops, rooks and       *)
(* queens of both sides.  evaluate sums a midgame and an endgame score     *)
(* over material, piece-square tables and structure; the material is       *)
(* computed here, the sum of the other terms is an input pair.             *)
(***************************************************************************)
PAWN_MG == 100
KNIGHT_MG == 320
BISHOP_MG == 330
ROOK_MG == 500
QUEEN_MG == 900
PAWN_EG == 120
KNIGHT_EG == 300
BISHOP_EG == 320
ROOK_EG == 550
QUEEN_EG == 950
PHASE_SCALE == 256

\* i32 division, which truncates toward zero
i32_div(a, b) == IF a >= 0 THEN a \div b ELSE -((-a) \div b)

\* the pieces of one side: pawns, knights, bishops, rooks, queens
EvalNoPieces == [p |-> 0, n |-> 0, b |-> 0, r |-> 0, q |-> 0]
EvalFullPieces == [p |-> 8, n |-> 2, b |-> 2, r |-> 2, q |-> 1]
EvalSides ==
    { EvalFullPieces,
      [EvalNoPieces EXCEPT !.p = 5],
      [p |-> 6, n |-> 1, b |-> 0, r |-> 1, q |-> 0],
      [p |-> 7, n |-> 2, b |-> 2, r |-> 2, q |-> 2] }
\* the piece-square and structure terms of both sides: <<midgame, endgame>>
EvalTerms == { <<0, 0>>, <<35, -20>>, <<-15, 60>> }

\* game_phase, hce.rs 158-174
game_phase(w, b) ==
    LET knight_phase == 1
        bishop_phase == 1
        rook_phase == 2
        queen_phase == 4
        total_phase == 4 * knight_phase + 4 * bishop_phase + 4 * rook_phase
                       + 2 * queen_phase
        phase == total_phase - (w.n + b.n) * knight_phase
                             - (w.b + b.b) * bishop_phase
                             - (w.r + b.r) * rook_phase
                             - (w.q + b.q) * queen_phase
    IN Min(Max(i32_div(phase * PHASE_SCALE + i32_div(total_phase, 2), total_phase),
               0), PHASE_SCALE)

\* taper, hce.rs 178-181
taper(mg, eg, phase) ==
    i32_div((mg * (PHASE_SCALE - phase)) + (eg * phase), PHASE_SCALE)

\* the material of one side, midgame and endgame values
material_mg(s) ==
    s.p * PAWN_MG + s.n * KNIGHT_MG + s.b * BISHOP_MG + s.r * ROOK_MG
    + s.q * QUEEN_MG
material_eg(s) ==
    s.p * PAWN_EG + s.n * KNIGHT_EG + s.b * BISHOP_EG + s.r * ROOK_EG
    + s.q * QUEEN_EG

\* evaluate, hce.rs 285-410: the phase, both sums, the tapered score and
\* the score from the side to move
evaluate(pos) ==
    LET phase == game_phase(pos.white, pos.black)
        mg_score == material_mg(pos.white) - material_mg(pos.black)
                    + pos.terms[1]
        eg_score == material_eg(pos.white) - material_eg(pos.black)
                    + pos.terms[2]
        final_score == taper(eg_score, mg_score, phase)
    IN [phase |-> phase, mg_score |-> mg_score, eg_score |-> eg_score,
        score |-> IF pos.side_to_move = "White" THEN final_score
                  ELSE -final_score]

EvalArgs ==
    { [fn |-> "evaluate", white |-> w, black |-> b, terms |-> t,
       side_to_move |-> c] :
      w \in EvalSides, b \in EvalSides, t \in EvalTerms, c \in Colors }

EvalCall ==
    /\ fnArgs # None /\ fnArgs.fn = "evaluate" /\ fnRet = None
    /\ fnRet' = Some(evaluate(fnArgs))
    /\ UNCHANGED fnArgs

EvalNext == EvalCall /\ HeurFrame

InitEval ==
    /\ TTNew /\ ConcIdle /\ PackIdle /\ ScoreIdle /\ NodeIdle /\ SmpIdle /\ NnueIdle
    /\ RootIdle /\ UciIdle /\ LimIdle /\ iter = None /\ io = None /\ OptIdle
    /\ fnArgs \in EvalArgs
    /\ fnRet = None

SpecEval == InitEval /\ [][EvalNext]_vars

---------------------------------------------------------------------------
---------------------------------------------------------------------------
\* the search is infinite: limits.infinite, or no movetime and no clock for
\* the side to move
InfiniteSearch ==
    \/ limits.l.infinite
    \/ limits.l.movetime = None /\ time_left(limits.l, limits.side) = None

\* the time manager of an infinite search never reports a limit as
\* reached, whatever time has elapsed
InfiniteLimitsNeverReached ==
    (tm # None /\ InfiniteSearch) =>
        /\ Get(tm).infinite
        /\ \A elapsed \in ElapsedSamples :
              /\ ~tm_should_stop(Get(tm), elapsed)
              /\ ~hard_limit_exceeded(Get(tm), elapsed)
              /\ ~soft_limit_exceeded(Get(tm), elapsed)
              /\ can_start_iteration(Get(tm), elapsed)

\* C22: in an infinite search both limits are unbounded: for every elapsed
\* time should_stop, hard_limit_exceeded and soft_limit_exceeded are false
\* and can_start_iteration is true, so only the stop flag, the depth limit
\* or a committed mate score ends the search.
C22_InfiniteSearchEndsByStopDepthOrMate ==
    /\ InfiniteLimitsNeverReached
    /\ (iter.pc = "done" /\ InfiniteSearch) =>
           iter.ended \in { "stop", "depth", "mate" }

\* an infinite search in a build that checks arithmetic overflow, ended by
\* the panic of soft * 2 once the best move was stable for six iterations
C22_PanicWitness ==
    /\ iter.pc = "done" /\ InfiniteSearch /\ iter.overflow_checks
    /\ iter.ended = "panic" /\ iter.stable_move_count = StableIterations
    /\ ~iter.stop /\ ~iter.best_score_mate /\ iter.depth <= iter.max_depth

\* in a build that wraps on overflow the infinite search ends only by the
\* stop flag, the depth limit or a committed mate score
InfiniteSearchWrappingBuild ==
    (iter.pc = "done" /\ InfiniteSearch /\ ~iter.overflow_checks) =>
        iter.ended \in { "stop", "depth", "mate" }

\* a search on the clock can end by its soft limit or by the stability rule
TimedSearchEndsEarly ==
    iter.pc = "done" /\ ~InfiniteSearch /\ iter.ended \in { "time", "stable" }

---------------------------------------------------------------------------
\* the values captured in the exchange that the move starts: the victim,
\* then the moving piece, then each recapturing piece that is itself taken
ExchangeGains(p) ==
    simulate_exchange(p.attackers, Opp(p.side_to_move),
                      { a.id : a \in p.attackers },
                      see_piece_value(p.attacker),
                      <<IF p.victim # None THEN see_piece_value(Get(p.victim)) ELSE 0>>)

SeeOfCapture == fnArgs # None /\ fnArgs.fn = "see" /\ fnRet # None /\ fnArgs.victim # None

\* C23: see(board, m) for a capture is the minimax value of the exchange,
\* v - max(0, a0 - max(0, a1 - ...)) over the least valuable attackers of
\* alternating sides; it is v - a0 < 0 when v < a0 and the square is
\* defended by one opposing piece, and is_good_capture is then false.
C23_SeeIsMinimaxOfExchange ==
    SeeOfCapture =>
        LET gains == ExchangeGains(fnArgs)
            v == see_piece_value(Get(fnArgs.victim))
            a0 == see_piece_value(fnArgs.attacker)
        IN /\ Get(fnRet).see = fold_gains_minimax(gains)[1]
           /\ (v < a0 /\ Len(gains) = 2) =>
                 /\ Get(fnRet).see = v - a0
                 /\ ~Get(fnRet).is_good_capture

\* a queen takes a pawn that a pawn defends: see is 100, the capture counts
\* as good
C23_QueenTakesDefendedPawn ==
    /\ SeeOfCapture
    /\ fnArgs.attacker = "Queen" /\ fnArgs.victim = Some("Pawn")
    /\ { a.piece : a \in fnArgs.attackers } = { "Pawn" }
    /\ { a.side : a \in fnArgs.attackers } = { "Black" }
    /\ Get(fnRet).see = 100 /\ Get(fnRet).is_good_capture

\* what see.rs 124-129 computes for a capture: the value of the victim,
\* whatever defends the square
SeeIsVictimValue ==
    SeeOfCapture => Get(fnRet).see = see_piece_value(Get(fnArgs.victim))

---------------------------------------------------------------------------
Pruned(how) == fnArgs # None /\ fnArgs.fn = "prune" /\ fnRet # None /\ Get(fnRet).pruned = how

\* C28: futility pruning skips a move only at depth <= 3: a quiet,
\* non-checking move with index > 0 is skipped only if depth <= 3 and
\* static_eval + 150 * depth < alpha; at depth >= 4 no move is skipped by
\* futility pruning.
C28_FutilityOnlyUpToDepthThree ==
    Pruned("futility") =>
        /\ fnArgs.depth <= 3
        /\ is_quiet(fnArgs.pos) /\ ~fnArgs.gives_check /\ fnArgs.move_idx > 0
        /\ fnArgs.eval + 150 * fnArgs.depth < fnArgs.alpha

\* a quiet move skipped by futility pruning at depth 7, with the static
\* evaluation that reverse futility pruning left in static_eval
C28_FutilityAtDepthSeven ==
    /\ Pruned("futility") /\ fnArgs.depth = 7
    /\ Get(fnRet).static_eval = Some(fnArgs.eval)
    /\ fnArgs.eval + 150 * 7 < fnArgs.alpha

\* what the code guarantees: futility pruning skips quiet, non-checking
\* moves with index > 0 at a node that is not in check, up to depth 7
FutilityUpToDepthSeven ==
    Pruned("futility") =>
        /\ fnArgs.depth <= 7 /\ ~fnArgs.in_check
        /\ is_quiet(fnArgs.pos) /\ ~fnArgs.gives_check /\ fnArgs.move_idx > 0
        /\ fnArgs.eval + 150 * fnArgs.depth < fnArgs.alpha

\* the move loses material for the mover: after it the opponent wins at
\* least `loss` on the destination square by the exchange
LosesAtLeast(p, loss) == fold_gains_minimax(ExchangeGains(p))[1] <= -loss

\* C29: a quiet move that puts the moved piece where the opponent captures
\* it with a net loss of at least 50 centipawns has see_ge(board, m, -50)
\* false, so at depth <= 4 (index > 0, no check) it is skipped; for pawn
\* moves as for piece moves.
C29_QuietBlunderIsSkipped ==
    ( /\ fnArgs # None /\ fnArgs.fn = "prune" /\ fnRet # None
      /\ is_quiet(fnArgs.pos) /\ LosesAtLeast(fnArgs.pos, 50) ) =>
        /\ ~see_ge(fnArgs.pos, -50)
        /\ ( /\ fnArgs.depth <= 4 /\ fnArgs.move_idx > 0
             /\ ~fnArgs.in_check /\ ~fnArgs.gives_check ) =>
               Get(fnRet).pruned # "search"

\* a knight goes to a square that only an enemy pawn attacks, at depth 3 as
\* the second move: see is 0 and the move is searched
C29_KnightEnPriseIsSearched ==
    /\ Pruned("search") /\ fnArgs.depth = 3 /\ fnArgs.move_idx = 1
    /\ ~fnArgs.in_check /\ ~fnArgs.gives_check
    /\ fnArgs.pos.attacker = "Knight" /\ fnArgs.pos.victim = None
    /\ { a.piece : a \in fnArgs.pos.attackers } = { "Pawn" }
    /\ LosesAtLeast(fnArgs.pos, 300)
    /\ see(fnArgs.pos) = 0

\* what the code does: no move is ever skipped by the quiet-SEE pruning,
\* see() being 0 for a quiet piece move and 100 for a quiet pawn move
QuietSeeNeverPrunes ==
    /\ ~Pruned("see")
    /\ (fnArgs # None /\ fnArgs.fn = "prune" /\ is_quiet(fnArgs.pos)) =>
          see(fnArgs.pos) = (IF fnArgs.pos.attacker = "Pawn" THEN 100 ELSE 0)

---------------------------------------------------------------------------
QsReturned == fnArgs # None /\ fnArgs.fn = "quiescence" /\ fnRet # None

\* C24 as stated: quiescence on a position whose side to move is not in
\* check returns a score that is not below the stand-pat evaluation of the
\* position, for every alpha and beta.
C24_ScoreNotBelowStandPat ==
    (QsReturned /\ ~fnArgs.node.in_check) =>
        Get(fnRet).score >= fnArgs.node.eval

\* C24 amended: the score is not below the smaller of the stand-pat
\* evaluation and beta: it is beta when the stand-pat evaluation reaches
\* beta, and not below the stand-pat evaluation otherwise.
C24_ScoreNotBelowStandPatOrBeta ==
    (QsReturned /\ ~fnArgs.node.in_check) =>
        /\ Get(fnRet).score >= Min(fnArgs.node.eval, fnArgs.beta)
        /\ fnArgs.node.eval >= fnArgs.beta => Get(fnRet).score = fnArgs.beta
        /\ fnArgs.node.eval < fnArgs.beta =>
              Get(fnRet).score >= fnArgs.node.eval

\* a position not in check whose captures were searched: the first one
\* loses against the stand-pat evaluation, the second one raises the score
\* above it
C24_Witness ==
    /\ QsReturned /\ ~fnArgs.node.in_check
    /\ fnArgs.node.eval = 0
    /\ fnArgs.alpha = -SCORE_INFINITY /\ fnArgs.beta = SCORE_INFINITY
    /\ Len(fnArgs.node.captures) = 2 /\ fnArgs.polls = 5
    /\ fnArgs.node.captures[1].child = QsLeaf(100)
    /\ fnArgs.node.captures[2].child = QsLeaf(-700)
    /\ Get(fnRet).score = 700

\* the stand-pat evaluation is above beta and beta is returned
QsStandPatAboveBeta ==
    /\ QsReturned /\ ~fnArgs.node.in_check
    /\ fnArgs.node.eval = 100 /\ fnArgs.beta = 50
    /\ Get(fnRet).score = 50

---------------------------------------------------------------------------
\* C25: when a "stop" command arrives on the UCI input while a search
\* started by "go" is running, the stop flag is set during that search, the
\* search ends and one bestmove line is emitted for that "go".
C25_StopIsSetDuringTheSearch ==
    (io.done # None /\ Get(io.done).stop_arrived) => Get(io.done).stop_flag

\* "go infinite", then "stop" while the search runs: the search has
\* returned for a reason of its own with the flag clear, the "stop" line is
\* still unread
C25_StopUnreadAtBestmove ==
    /\ io.done = Some([go |-> "go infinite", stop_arrived |-> TRUE,
                       stop_flag |-> FALSE])
    /\ io.pc = "read" /\ io.stdin = <<"stop">> /\ io.out = <<"bestmove">>

\* what the code does: no line is read and the stop flag is never set
\* while a search runs
NothingIsReadDuringSearch ==
    /\ io.pc = "searching" => ~io.stop
    /\ [][io.pc = "searching" /\ io'.pc = "searching" =>
            Len(io'.stdin) >= Len(io.stdin) /\ io'.stop = io.stop]_vars

---------------------------------------------------------------------------
\* thread t takes a step from the return of its root call
AfterRootCall(t) == thr[t].pc = "root_ret" /\ thr'[t] # thr[t]

---------------------------------------------------------------------------
\* the node probed a matching entry
ProbedEntry == fnArgs # None /\ fnArgs.fn = "tt_probe" /\ fnRet # None /\ fnArgs.entry # None

\* the score that a return of the probe carries
ReturnsScore(s) == Get(fnRet).returned # None /\ Get(Get(fnRet).returned).score = s

\* an entry of smaller depth causes no early return and no change of alpha
\* or beta, it only supplies the TT move
ShallowEntryOnlyGivesMove ==
    (ProbedEntry /\ Get(fnArgs.entry).depth < fnArgs.depth) =>
        /\ Get(fnRet).returned = None
        /\ Get(fnRet).alpha = fnArgs.alpha /\ Get(fnRet).beta = fnArgs.beta
        /\ Get(fnRet).tt_move = entry_best_move(Get(fnArgs.entry))

\* C27 as stated: with an entry of depth >= the node's depth, an Exact
\* entry makes the node return the stored score, a LowerBound entry with
\* score >= beta makes it return beta, an UpperBound entry with score <=
\* alpha makes it return alpha; an entry of smaller depth only supplies the
\* TT move.
C27_BoundCutoffsReturnBetaAndAlpha ==
    /\ ShallowEntryOnlyGivesMove
    /\ (ProbedEntry /\ Get(fnArgs.entry).depth >= fnArgs.depth) =>
          LET e == Get(fnArgs.entry)
              tt_score == from_tt(e.score, fnArgs.ply)
          IN /\ bound(e) = BoundExact => ReturnsScore(tt_score)
             /\ (bound(e) = BoundLower /\ tt_score >= fnArgs.beta) =>
                   ReturnsScore(fnArgs.beta)
             /\ (bound(e) = BoundUpper /\ tt_score <= fnArgs.alpha) =>
                   ReturnsScore(fnArgs.alpha)

\* C27 amended: the three early returns all carry the entry's score (taken
\* through from_tt at the node's ply), which for a LowerBound entry may be
\* above beta and for an UpperBound entry below alpha; a LowerBound entry
\* with alpha < score < beta raises alpha to the score and the node goes
\* on; an entry of smaller depth only supplies the TT move.
C27_BoundCutoffsReturnEntryScore ==
    /\ ShallowEntryOnlyGivesMove
    /\ (ProbedEntry /\ Get(fnArgs.entry).depth >= fnArgs.depth) =>
          LET e == Get(fnArgs.entry)
              tt_score == from_tt(e.score, fnArgs.ply)
              cutoff == \/ bound(e) = BoundExact
                        \/ bound(e) = BoundLower /\ tt_score >= fnArgs.beta
                        \/ bound(e) = BoundUpper /\ tt_score <= fnArgs.alpha
          IN /\ cutoff => /\ ReturnsScore(tt_score)
                          /\ Get(Get(fnRet).returned).best_move = entry_best_move(e)
             /\ ~cutoff => Get(fnRet).returned = None
             /\ Get(fnRet).beta = fnArgs.beta
             /\ Get(fnRet).alpha =
                   (IF ~cutoff /\ bound(e) = BoundLower /\ tt_score > fnArgs.alpha
                    THEN tt_score ELSE fnArgs.alpha)

\* a LowerBound entry of depth 5 with score 100 at a node of depth 3 with
\* the window (-50, 50): the node returns 100
C27_Witness ==
    /\ ProbedEntry
    /\ Get(fnArgs.entry).depth = 5 /\ fnArgs.depth = 3
    /\ bound(Get(fnArgs.entry)) = BoundLower /\ Get(fnArgs.entry).score = 100
    /\ fnArgs.alpha = -50 /\ fnArgs.beta = 50
    /\ ReturnsScore(100)

\* an entry of depth 2 at a node of depth 3
C27_ShallowWitness ==
    /\ ProbedEntry /\ Get(fnArgs.entry).depth = 2 /\ fnArgs.depth = 3
    /\ Get(fnRet).returned = None /\ Get(fnRet).tt_move # None

---------------------------------------------------------------------------
\* the score of a move of the call
OrderScore(m) ==
    score_move(m, fnArgs.tt_move, fnArgs.killers, fnArgs.counter_move)

\* seq holds exactly the moves of the list, each once
IsPermutationOfInput(seq) ==
    /\ Len(seq) = Len(fnArgs.moves)
    /\ { seq[i] : i \in DOMAIN seq } = { fnArgs.moves[i] : i \in DOMAIN fnArgs.moves }
    /\ \A i, j \in DOMAIN seq : i # j => seq[i] # seq[j]

NonIncreasingScores(seq) ==
    \A i, j \in DOMAIN seq : i < j => OrderScore(seq[i]) >= OrderScore(seq[j])

TTMoveInList ==
    fnArgs.tt_move # None /\ \E i \in DOMAIN fnArgs.moves : fnArgs.moves[i] = Get(fnArgs.tt_move)

\* the moves that the picker has handed out, without its final None
PickedMoves ==
    LET r == Get(fnRet).returned
    IN [i \in { k \in DOMAIN r : r[k] # None } |-> Get(r[i])]

\* C30: order_moves_full rearranges the list so that it holds exactly the
\* input moves in non-increasing score order; successive MovePicker::next
\* calls return every move exactly once in non-increasing score order and
\* then none; a TT move that is in the list comes first.
C30_OrderingIsSortedPermutation ==
    /\ (fnArgs # None /\ fnArgs.fn = "order_moves_full" /\ fnRet # None) =>
          /\ IsPermutationOfInput(Get(fnRet))
          /\ NonIncreasingScores(Get(fnRet))
          /\ TTMoveInList => Get(fnRet)[1] = Get(fnArgs.tt_move)
    /\ (fnArgs # None /\ fnArgs.fn = "MovePicker" /\ fnRet # None) =>
          LET r == Get(fnRet).returned
              n == Len(fnArgs.moves)
          IN /\ \A k \in DOMAIN r : (r[k] = None) <=> (k > n)
             /\ DOMAIN PickedMoves = 1 .. Min(Len(r), n)
             /\ NonIncreasingScores(PickedMoves)
             /\ \A i, j \in DOMAIN PickedMoves :
                   i # j => PickedMoves[i] # PickedMoves[j]
             /\ { PickedMoves[i] : i \in DOMAIN PickedMoves } \subseteq
                   { fnArgs.moves[i] : i \in DOMAIN fnArgs.moves }
             /\ Len(r) >= n => IsPermutationOfInput(PickedMoves)
             /\ (TTMoveInList /\ Len(r) >= 1) => r[1] = fnArgs.tt_move

\* a picker over three moves given in increasing score order, with the TT
\* move last in the list: next handed out the three in the opposite order
\* and then None
C30_Witness ==
    /\ fnArgs # None /\ fnArgs.fn = "MovePicker" /\ fnRet # None
    /\ Len(fnArgs.moves) = 3 /\ Len(Get(fnRet).returned) = 4
    /\ fnArgs.tt_move = Some(fnArgs.moves[3])
    /\ fnArgs.moves[1].id = 2 /\ fnArgs.moves[2].id = 5 /\ fnArgs.moves[3].id = 1
    /\ Get(fnRet).returned =
          <<Some(fnArgs.moves[3]), Some(fnArgs.moves[2]), Some(fnArgs.moves[1]), None>>

\* order_moves_full on the same list
C30_SortWitness ==
    /\ fnArgs # None /\ fnArgs.fn = "order_moves_full" /\ fnRet # None
    /\ Len(fnArgs.moves) = 3 /\ fnArgs.tt_move = Some(fnArgs.moves[3])
    /\ fnArgs.moves[1].id = 2 /\ fnArgs.moves[2].id = 5 /\ fnArgs.moves[3].id = 1
    /\ Get(fnRet) = <<fnArgs.moves[3], fnArgs.moves[2], fnArgs.moves[1]>>

---------------------------------------------------------------------------
\* C31: a search started with a node limit N stops once the number of nodes
\* searched reaches N: from then on should_stop is true, no further node is
\* searched and no further iteration is started.
C31_NodeLimitEndsTheSearch ==
    (iter.pc \in { "top", "root" } /\ iter.nodes >= Get(limits.l.nodes))
        => should_stop(iter.stop, iter.nodes,
                       hard_limit_exceeded(Get(tm), iter.elapsed))

\* what the code does with go nodes N alone: the time manager is the
\* infinite one and should_stop stays false while nobody sets the flag
NodeLimitIsNotRead ==
    (iter.pc # "idle" /\ limits.l.movetime = None)
        => /\ Get(tm).infinite
           /\ ~iter.stop
                => ~should_stop(iter.stop, iter.nodes,
                                hard_limit_exceeded(Get(tm), iter.elapsed))

\* go nodes 1: the search is in its third iteration with six nodes searched
\* and the stop flag clear
C31_SearchPastTheLimit ==
    /\ iter.pc = "root" /\ iter.depth = 3
    /\ limits.l.nodes = Some(1) /\ limits.l.movetime = None
    /\ iter.nodes = MaxLimitNodes /\ ~iter.stop

---------------------------------------------------------------------------
\* C37: whenever can_start_new_iteration reaches its stability check (flag
\* clear, soft limit not reached, best move stable for six iterations or
\* more), the product soft * 2 of its threshold stays within the range of
\* u64, for the infinite time manager as for every other.
C37_StableThresholdFitsU64 ==
    (/\ iter.pc = "top" /\ iter.depth <= iter.max_depth
     /\ ~iter.stop
     /\ can_start_iteration(Get(tm), iter.elapsed)
     /\ iter.stable_move_count >= StableIterations)
        => ~u64_mul(soft_limit_ms(Get(tm)), 2).overflow

\* the managers built from a movetime or a clock of this model keep the
\* product in range: only u64::MAX of the infinite manager leaves it
OnlyInfiniteThresholdOverflows ==
    (iter.pc # "idle")
        => (u64_mul(soft_limit_ms(Get(tm)), 2).overflow <=> Get(tm).infinite)

---------------------------------------------------------------------------
\* C36: the aspiration loop of one iteration makes at most three root
\* searches: the second one runs with exactly one bound widened to its
\* infinity, the third one with both, and no fourth one is started (delta,
\* doubled after each search that is not accepted, never passes 100).
C36_AtMostThreeRootSearches ==
    \A t \in RootThreads :
        thr[t].pc \in { "asp", "root_ret" }
            => /\ thr[t].delta \in { INITIAL_WINDOW, 2 * INITIAL_WINDOW,
                                     4 * INITIAL_WINDOW }
               /\ thr[t].delta = 2 * INITIAL_WINDOW
                    => (thr[t].alpha = neg_infinity)
                         # (thr[t].beta = SCORE_INFINITY)
               /\ thr[t].delta = 4 * INITIAL_WINDOW
                    => /\ thr[t].alpha = neg_infinity
                       /\ thr[t].beta = SCORE_INFINITY

\* the second iteration failed low, then high, and its third root search
\* was accepted
C36_Witness ==
    /\ thr[MainThread].pc = "iter_end" /\ thr[MainThread].depth = 2
    /\ thr[MainThread].delta = 4 * INITIAL_WINDOW
    /\ thr[MainThread].accepted # None
    /\ Get(thr[MainThread].accepted).depth = 2
    /\ ~Get(thr[MainThread].accepted).interrupted
    /\ thr[MainThread].best_score = 100

---------------------------------------------------------------------------
\* C35: for every depth d from 0 to Depth::MAX = 128 that a store wrote into
\* a cell, the entry that probe reads back for that hash reports depth d.
C35_StoredDepthIsReadBack ==
    \A i \in Indexes :
        IsSome(written[i]) =>
            LET w == Get(written[i])
                r == probe(entries, w.hash)
            IN (w.bound # BoundNone /\ 0 <= w.depth /\ w.depth <= MAX_DEPTH)
                   => IsSome(r) /\ Get(r).depth = w.depth

\* what the code does: depths up to 127 are read back, the iteration depth
\* 128 is read back as -128
DepthMaxReadsBackNegative ==
    \A i \in Indexes :
        IsSome(written[i]) =>
            LET w == Get(written[i])
                r == probe(entries, w.hash)
            IN w.bound # BoundNone
                   => /\ IsSome(r)
                      /\ Get(r).depth = (IF w.depth = MAX_DEPTH
                                         THEN -MAX_DEPTH ELSE w.depth)

---------------------------------------------------------------------------
\* C33: with stores of several threads interleaved between their load,
\* their decision and their write, no write replaces a non-empty entry of
\* the current generation by an entry of smaller depth.
C33_DeeperEntrySurvivesConcurrentStores ==
    [][\A i \in Indexes :
          LET old == from_u64(entries[i])
              new == from_u64(entries'[i])
          IN (/\ entries'[i] # entries[i]
              /\ ~is_empty(old)
              /\ entry_generation(old) = generation)
                 => new.depth >= old.depth]_vars

\* a store that decides on the cell as it is when it writes keeps the rule:
\* every write that breaks it was decided on a word loaded before the
\* entry it replaces was written
OnlyStaleDecisionsOverwriteDeeper ==
    [][\A t \in ConcThreads :
          (/\ ConcStoreWrite(t)
           /\ Get(cPending[t]).replace
           /\ should_replace(from_u64(entries[index(Get(cPending[t]).call.hash)]),
                             Get(cPending[t]).gen, Get(cPending[t]).call.depth)
           /\ Get(cPending[t]).gen = generation)
              => LET i == index(Get(cPending[t]).call.hash)
                     old == from_u64(entries[i])
                 IN (~is_empty(old) /\ entry_generation(old) = generation)
                        => from_u64(entries'[i]).depth >= old.depth]_vars

---------------------------------------------------------------------------
\* C34: the best move that search() returns, when there is one, is a legal
\* move of the root position, whatever entries of other positions the table
\* holds at the root's index.
C34_BestMoveIsLegalAtRoot ==
    (fnArgs # None /\ fnArgs.fn = "root" /\ fnRet # None
       /\ Get(fnRet).best_move # None)
        => Get(Get(fnRet).best_move) \in fnArgs.root.legal

\* an illegal best move comes from the table only: the cell at the root's
\* index was last written for another position with the root's key fragment
IllegalOnlyFromForeignEntry ==
    (fnArgs # None /\ fnArgs.fn = "root" /\ fnRet # None
       /\ Get(fnRet).best_move # None
       /\ Get(Get(fnRet).best_move) \notin fnArgs.root.legal)
        => LET w == written[index(fnArgs.root.hash)]
           IN /\ IsSome(w)
              /\ Get(w).hash # fnArgs.root.hash
              /\ Get(w).hash.hi = fnArgs.root.hash.hi
              /\ Get(w).depth >= fnArgs.depth
              /\ Get(w).best_move = Get(fnRet).best_move

\* the root call returned the move e7e5 of the other position
C34_ForeignMoveReturned ==
    /\ fnArgs # None /\ fnArgs.fn = "root" /\ fnRet # None
    /\ Get(fnRet).best_move = Some([from |-> 52, to |-> 36, promo |-> NoPromo])
    /\ nsearch = 1

---------------------------------------------------------------------------
\* C38: a search runs with the number of threads that the Threads option was
\* last given (1 if it never was), whether or not ucinewgame came in
\* between.
C38_SearchUsesConfiguredThreads ==
    (handler # None /\ handler.last_go # None)
        => Get(handler.last_go).threads = handler.threads_option

\* what ucinewgame does keep: the NNUE model, the move overhead and the
\* book settings; the number of threads goes back to 1
NewGameKeepsAllButThreads ==
    [][OptNewGame =>
         /\ handler'.searcher.nnue = handler.searcher.nnue
         /\ handler'.move_overhead = handler.move_overhead
         /\ handler'.use_own_book = handler.use_own_book
         /\ handler'.book_path = handler.book_path
         /\ handler'.book = handler.book
         /\ handler'.searcher.num_threads = 1]_vars

\* setoption name Threads value 4, ucinewgame, go: the search runs on one
\* thread
C38_OneThreadAfterNewGame ==
    /\ handler # None /\ handler.last_go # None
    /\ handler.threads_option = 4
    /\ Get(handler.last_go).threads = 1
    /\ Get(handler.last_go).nnue = Some("network.nnue")

---------------------------------------------------------------------------
\* the non-pawn pieces of both sides are all there / are all gone
EvalAllPieces ==
    /\ fnArgs.white = [EvalFullPieces EXCEPT !.p = fnArgs.white.p]
    /\ fnArgs.black = [EvalFullPieces EXCEPT !.p = fnArgs.black.p]
EvalNoPiecesLeft ==
    /\ fnArgs.white = [EvalNoPieces EXCEPT !.p = fnArgs.white.p]
    /\ fnArgs.black = [EvalNoPieces EXCEPT !.p = fnArgs.black.p]
\* the score of evaluate from White's side
EvalWhiteScore ==
    IF fnArgs.side_to_move = "White" THEN Get(fnRet).score ELSE -Get(fnRet).score

\* C32: with the full set of non-pawn pieces game_phase is 256 and evaluate
\* returns the midgame score; with none game_phase is 0 and evaluate returns
\* the endgame score.
C32_TaperFollowsDocumentedPhase ==
    (fnArgs # None /\ fnArgs.fn = "evaluate" /\ fnRet # None)
        => /\ EvalAllPieces
                => /\ Get(fnRet).phase = PHASE_SCALE
                   /\ EvalWhiteScore = Get(fnRet).mg_score
           /\ EvalNoPiecesLeft
                => /\ Get(fnRet).phase = 0
                   /\ EvalWhiteScore = Get(fnRet).eg_score

\* what the code computes: the phase counts the pieces that are gone, and
\* the score weighs the endgame sum with the pieces present and the midgame
\* sum with the pieces gone
EvalTaperIsInverted ==
    (fnArgs # None /\ fnArgs.fn = "evaluate" /\ fnRet # None)
        => /\ EvalAllPieces
                => /\ Get(fnRet).phase = 0
                   /\ EvalWhiteScore = Get(fnRet).eg_score
           /\ EvalNoPiecesLeft
                => /\ Get(fnRet).phase = PHASE_SCALE
                   /\ EvalWhiteScore = Get(fnRet).mg_score
           /\ EvalWhiteScore =
                 i32_div(Get(fnRet).eg_score * (PHASE_SCALE - Get(fnRet).phase)
                         + Get(fnRet).mg_score * Get(fnRet).phase, PHASE_SCALE)

\* all pieces and pawns on the board, White to move: the score is the
\* endgame sum -20, not the midgame sum 35
C32_OpeningScoredAsEndgame ==
    /\ fnArgs # None /\ fnArgs.fn = "evaluate" /\ fnRet # None
    /\ EvalAllPieces
    /\ fnArgs.white.p = 8 /\ fnArgs.black.p = 8
    /\ fnArgs.terms = <<35, -20>> /\ fnArgs.side_to_move = "White"
    /\ Get(fnRet).score = -20 /\ Get(fnRet).mg_score = 35

=============================================================================
